---- MODULE Spec2Model ----
(***************************************************************************)
(* pickley: the version-state model (VersionMeta), the Packager            *)
(* refresh/install state machine and the delivery of entry points, as      *)
(* implemented in src/pickley/package.py, system.py and cli.py.            *)
(*                                                                         *)
(* Two specifications share the variables:                                 *)
(*   SpecMeta  the VersionMeta operations (set_version, set, invalidate,   *)
(*             load, save) applied in any order to two instances;          *)
(*   Spec      the Packager operations (refresh_current, refresh_latest,   *)
(*             refresh_desired, install) of one package, with the          *)
(*             configuration, the remote index, the clock and the          *)
(*             filesystem as environment.                                  *)
(***************************************************************************)
EXTENDS Integers, Sequences, FiniteSets, TLC

VARIABLES
    now,              \* time.time(), in seconds
    dryrun,           \* system.DRYRUN
    configured,       \* SETTINGS.version(name): [value, channel, source]
    implementation,   \* implementation_name of the Packager in use (venv, pex)
    remote,           \* what latest_pypi_version(index, name) returns
    diskCurrent,      \* <meta>/<name>/.current.json       (<<>> when absent)
    diskLatest,       \* <meta>/<name>/.latest.json        (<<>> when absent)
    diskEntryPoints,  \* <meta>/<name>/.entry-points.json  (<<>> when absent)
    targets,          \* <base>/<entry point>: what occupies each target path
    current,          \* Packager.current
    latest,           \* Packager.latest
    desired,          \* Packager.desired
    entry_points,     \* Packager._entry_points (<<>> when None)
    ping,             \* <meta>/<name>/.ping, the ping lock  (<<>> when absent)
    checked,          \* <cache>/<name>/.checked, the wrapper's sentinel (<<>> when absent)
    procs,            \* the processes of the commands under way, by pid
    settings,         \* SETTINGS: the chain of configuration sources
    last              \* record of the last operation performed (observation only)

vars == <<now, dryrun, configured, implementation, remote, diskCurrent, diskLatest,
          diskEntryPoints, targets, current, latest, desired, entry_points, ping,
          checked, procs, settings, last>>

\* No lock, no sentinel, no command under way, no configuration source
NoOtherFiles ==
    /\ ping = <<>>
    /\ checked = <<>>
    /\ procs = <<>>
    /\ settings = <<>>

----------------------------------------------------------------------------
(* Values *)

\* Python's None, where a string is expected
None == "None"

\* Python truthiness of a str|None
truthy(s) == s # None /\ s # ""

\* VersionMeta.timestamp = None (the class default); None and 0.0 are both falsy
NoTimestamp == 0

\* VersionMeta._latest_validity, in seconds
LatestValidity == 30 * 60

\* The package and the entry points its releases may declare
Name == "tox"
Versions == {"3.2.0", "3.2.1"}

\* What a failed lookup returns when the index answered but could not be read
\* (tests/test_settings.py: a string, not None)
LookupProblem == "can't determine latest version from 'https://pypi.org/pypi/tox/json'"

\* SETTINGS.index or "pypi"
Index == "pypi"

\* Bounds of the model: the clock starts at Epoch and advances by whole validity
\* windows (by half windows where single metas are examined), up to MaxTime
MaxWindows == 1
Epoch == 1
MaxTime == Epoch + MaxWindows * LatestValidity
HalfWindow == LatestValidity \div 2

----------------------------------------------------------------------------
(* VersionMeta *)

\* (VersionMeta.__init__, were every meta to get a file, 'desired' when no suffix is given)
VersionMeta_always_with_path(name, suffix) ==
    [ name      |-> name,
      path      |-> IF suffix = None THEN "desired" ELSE suffix,
      problem   |-> None,
      channel   |-> "",
      packager  |-> "",
      source    |-> "",
      timestamp |-> NoTimestamp,
      version   |-> "" ]

\* VersionMeta.__init__: the class defaults, a name, and a path when a suffix is given
VersionMeta(name, suffix) ==
    [ name      |-> name,
      path      |-> suffix,
      problem   |-> None,
      channel   |-> "",
      packager  |-> "",
      source    |-> "",
      timestamp |-> NoTimestamp,
      version   |-> "" ]

\* VersionMeta.valid
\* (valid, were it to ignore the problem)
valid_version_only(m) == truthy(m.version)
valid(m) == truthy(m.version) /\ ~truthy(m.problem)

\* VersionMeta.equivalent, for an 'other' that is not None
\* (equivalent, were it to compare the version alone, or every field)
equivalent_version_only(a, other) == a.version = other.version
equivalent_every_field(a, other) == a = other
equivalent(a, other) ==
    IF a.version # other.version THEN FALSE
    ELSE IF a.packager # other.packager THEN FALSE
    ELSE TRUE

\* VersionMeta.set_version at time t
set_version(m, version, source, channel, packager, t) ==
    [m EXCEPT !.version = version, !.source = source, !.channel = channel,
              !.packager = packager, !.timestamp = t]

\* VersionMeta.set
set_all_fields(m, other) ==
    [m EXCEPT !.problem = other.problem, !.channel = other.channel,
              !.packager = other.packager, !.source = other.source,
              !.timestamp = other.timestamp, !.version = other.version]
set(m, other) ==
    [m EXCEPT !.problem = other.problem,
              !.channel = other.channel,
              !.packager = IF truthy(other.packager) THEN other.packager ELSE m.packager,
              !.source = other.source,
              !.timestamp = other.timestamp,
              !.version = other.version]

\* VersionMeta.invalidate
invalidate(m, problem) == [m EXCEPT !.problem = problem, !.version = ""]

\* VersionMeta.still_valid at time t
still_valid_strict(m, t) == valid(m) /\ m.timestamp # NoTimestamp /\ (t - m.timestamp) < LatestValidity
still_valid(m, t) ==
    IF ~valid(m) \/ m.timestamp = NoTimestamp THEN valid(m)
    ELSE (t - m.timestamp) < LatestValidity

\* JsonSerializable.to_dict: the public fields (not name, path, problem)
to_dict(m) ==
    [ channel   |-> m.channel,
      packager  |-> m.packager,
      source    |-> m.source,
      timestamp |-> m.timestamp,
      version   |-> m.version ]

\* JsonSerializable.load from the file at the meta's path: the public fields are
\* reset, then set from the record when there is one
load(m, file) ==
    LET blank == [m EXCEPT !.channel = "", !.packager = "", !.source = "",
                           !.timestamp = NoTimestamp, !.version = ""]
    IN  IF m.path = None \/ file = <<>> THEN blank
        ELSE [blank EXCEPT !.channel = file[1].channel, !.packager = file[1].packager,
                           !.source = file[1].source, !.timestamp = file[1].timestamp,
                           !.version = file[1].version]

\* JsonSerializable.save: the file after save (nothing is written in a dry run,
\* or for a meta without path)
\* (the same, were a file that exists never written again)
save_when_absent(m, file, dry) ==
    IF dry \/ m.path = None \/ file # <<>> THEN file ELSE <<to_dict(m)>>
save(m, file, dry) ==
    IF dry \/ m.path = None THEN file ELSE <<to_dict(m)>>

\* VersionMeta.file_exists
file_exists(m, file) == m.path # None /\ file # <<>>

----------------------------------------------------------------------------
(* Filesystem primitives and delivery *)

\* What may occupy <base>/<entry point>: nothing, a file this program did not
\* deliver, or the delivery of a version (named by the version)
Absent == "absent"
Foreign == "foreign"

\* The registered delivery methods (DELIVERERS)
Variants == {"symlink", "wrap", "copy"}

\* The entry points a release may declare (console_scripts), as discovered
EntryPointNames == {"tox", "tox-quickstart"}
EntryPointLists == { <<>>, <<"tox">>, <<"tox", "tox-quickstart">> }

Range(seq) == { seq[i] : i \in DOMAIN seq }

\* system.delete_file on a target path
\* (delete_file, were it not to look at the dry-run flag)
delete_file_unguarded(t, dry) == Absent
delete_file(t, dry) ==
    IF t = Absent THEN t
    ELSE IF dry THEN t
    ELSE Absent

\* uninstall_existing(target), of pickley.uninstall: removes what occupies the path
uninstall_existing(t, dry) == IF dry THEN t ELSE Absent

\* perform_delivery calls uninstall_existing(target) for a package that is not
\* pickley itself and has no current file
\* (the same, were the current file not looked at)
uninstalls_existing_any_current(name, had_current) ==
    name # "pickley"
uninstalls_existing(name, had_current) ==
    name # "pickley" /\ ~had_current

\* DeliveryMethod.install: 'placed' says that the source exists and that the
\* variant's _install did not raise
DeliveryMethod_install(t, version, dry, placed) ==
    LET deleted == delete_file(t, dry)
    IN  IF dry THEN deleted
        ELSE IF ~placed THEN deleted
        ELSE version

----------------------------------------------------------------------------
(* Packager *)

\* Packager.entry_points (the property): the cached list, else the persisted one,
\* else [name] in a dry run and [] otherwise
EntryPointsProperty(mem, file, dry) ==
    IF mem # <<>> THEN mem[1]
    ELSE IF file # <<>> THEN file[1]
    ELSE IF dry THEN <<Name>>
    ELSE <<>>

\* Packager.refresh_entry_points, 'found' being what get_entry_points returns
\* (None and [] alike are <<>>)
refresh_entry_points_no_abort(mem, file, dry, found) ==
    IF dry
    THEN [abort |-> FALSE, mem |-> mem, file |-> file, discovered |-> "not_run"]
    ELSE [abort |-> FALSE, mem |-> <<found>>, file |-> <<found>>,
          discovered |-> IF found = <<>> THEN "empty" ELSE "some"]
refresh_entry_points(mem, file, dry, found) ==
    IF dry
    THEN [abort |-> FALSE, mem |-> mem, file |-> file, discovered |-> "not_run"]
    ELSE IF found = <<>>
    THEN [abort |-> TRUE, mem |-> <<found>>, file |-> file, discovered |-> "empty"]
    ELSE [abort |-> FALSE, mem |-> <<found>>, file |-> <<found>>, discovered |-> "some"]

\* Packager.refresh_current
\* (refresh_current, were it only to load)
refresh_current_load_only(cur, file) == load(cur, file)
refresh_current(cur, file) ==
    LET loaded == load(cur, file)
    IN  IF ~valid(loaded) THEN invalidate(loaded, "is not installed") ELSE loaded

\* (refresh_latest, were it to consult the index every time)
refresh_latest_always_lookup(lat, file, t, dry, answer) ==
    LET loaded == load(lat, file)
        stamped == set_version(loaded, answer, Index, "latest", "", t)
    IN  IF truthy(answer)
        THEN [meta |-> stamped, file |-> save(stamped, file, dry), lookups |-> 1]
        ELSE [meta |-> invalidate(stamped, "can't determine latest version"),
              file |-> file, lookups |-> 1]

\* Packager.refresh_latest: the meta, its file and the number of remote lookups
refresh_latest(lat, file, t, dry, answer) ==
    LET loaded == load(lat, file)
        stamped == set_version(loaded, answer, Index, "latest", "", t)
    IN  IF still_valid(loaded, t)
        THEN [meta |-> loaded, file |-> file, lookups |-> 0]
        ELSE IF truthy(answer)
        THEN [meta |-> stamped, file |-> save(stamped, file, dry), lookups |-> 1]
        ELSE [meta |-> invalidate(stamped, "can't determine latest version"),
              file |-> file, lookups |-> 1]

\* refresh_desired, were it to follow the index for every channel without a version
refresh_desired_any_channel(des, lat, file, conf, impl, t, dry, answer) ==
    LET r == refresh_latest(lat, file, t, dry, answer)
    IN  IF truthy(conf.value)
        THEN [desired |-> set_version(des, conf.value, conf.source, conf.channel, impl, t),
              latest |-> lat, file |-> file, lookups |-> 0]
        ELSE [desired |-> [set(des, r.meta) EXCEPT !.packager = impl],
              latest |-> r.meta, file |-> r.file, lookups |-> r.lookups]

\* (refresh_desired, were it to refresh latest before it looks at the configuration)
refresh_desired_latest_first(des, lat, file, conf, impl, t, dry, answer) ==
    LET r == refresh_latest(lat, file, t, dry, answer)
    IN  IF truthy(conf.value)
        THEN [desired |-> set_version(des, conf.value, conf.source, conf.channel, impl, t),
              latest |-> r.meta, file |-> r.file, lookups |-> r.lookups]
        ELSE IF conf.channel = "latest"
        THEN [desired |-> [set(des, r.meta) EXCEPT !.packager = impl],
              latest |-> r.meta, file |-> r.file, lookups |-> r.lookups]
        ELSE [desired |-> invalidate(des, "can't determine " \o conf.channel \o " version"),
              latest |-> r.meta, file |-> r.file, lookups |-> r.lookups]

\* Packager.refresh_desired: desired, and latest with its file when it was refreshed
refresh_desired(des, lat, file, conf, impl, t, dry, answer) ==
    LET r == refresh_latest(lat, file, t, dry, answer)
    IN  IF truthy(conf.value)
        THEN [desired |-> set_version(des, conf.value, conf.source, conf.channel, impl, t),
              latest |-> lat, file |-> file, lookups |-> 0]
        ELSE IF conf.channel = "latest"
        THEN [desired |-> [set(des, r.meta) EXCEPT !.packager = impl],
              latest |-> r.meta, file |-> r.file, lookups |-> r.lookups]
        ELSE [desired |-> invalidate(des, "can't determine " \o conf.channel \o " version"),
              latest |-> lat, file |-> file, lookups |-> 0]

\* (perform_delivery, were a failed delivery to end the loop)
perform_delivery_stop_at_failure(version, mem, file, dry, tg, had_current, placed) ==
    LET eps == EntryPointsProperty(mem, file, dry)
        failed(i) == ~dry /\ ~placed[eps[i]]
        reached(i) == \A j \in 1..(i - 1) : ~failed(j)
        cleared(n) == IF uninstalls_existing(Name, had_current)
                      THEN uninstall_existing(tg[n], dry) ELSE tg[n]
    IN  [ mem |-> <<eps>>,
          targets |-> [n \in DOMAIN tg |->
                         IF \E i \in DOMAIN eps : eps[i] = n /\ reached(i)
                         THEN DeliveryMethod_install(cleared(n), version, dry, placed[n])
                         ELSE tg[n]],
          deliveries |-> Cardinality({i \in DOMAIN eps : reached(i)}) ]

\* Packager.perform_delivery: every entry point is delivered to <base>/<name>
perform_delivery(version, mem, file, dry, tg, had_current, placed) ==
    LET eps == EntryPointsProperty(mem, file, dry)
        cleared(n) == IF uninstalls_existing(Name, had_current)
                      THEN uninstall_existing(tg[n], dry) ELSE tg[n]
    IN  [ mem |-> <<eps>>,
          targets |-> [n \in DOMAIN tg |->
                         IF n \in Range(eps)
                         THEN DeliveryMethod_install(cleared(n), version, dry, placed[n])
                         ELSE tg[n]],
          deliveries |-> Len(eps) ]

\* A release that the index holds can be built; nothing else can
Buildable(version) == version \in Versions

\* VenvPackager.effective_install / PexPackager.effective_install.
\* env: [pip, pex: the builder steps succeed; found: the entry points discovered;
\*       placed: per entry point, the delivery succeeds; delivery: the delivery
\*       type configured for the package, which perform_delivery looks up first]
effective_install(impl, version, mem, file, dry, tg, had_current, env) ==
    LET pip_ok == dry \/ (env.pip /\ Buildable(version))
        pex_ok == dry \/ impl # "pex" \/ env.pex
        deliverer_ok == env.delivery \in Variants
        rep    == refresh_entry_points(mem, file, dry, env.found)
        del    == perform_delivery(version, rep.mem, rep.file, dry, tg, had_current, env.placed)
        stop(why, m, f, d) ==
            [outcome |-> why, mem |-> m, file |-> f, targets |-> tg,
             deliveries |-> 0, discovered |-> d]
    IN  IF ~pip_ok THEN stop("abort_build", mem, file, "not_run")
        ELSE IF rep.abort THEN stop("abort_not_cli", rep.mem, rep.file, rep.discovered)
        ELSE IF ~pex_ok THEN stop("abort_build", rep.mem, rep.file, rep.discovered)
        ELSE IF ~deliverer_ok
        THEN stop("abort_delivery", rep.mem, rep.file, rep.discovered)
        ELSE [outcome |-> "returned", mem |-> del.mem, file |-> rep.file,
              targets |-> del.targets, deliveries |-> del.deliveries,
              discovered |-> rep.discovered]

----------------------------------------------------------------------------
(* The VersionMeta operations, in any order, on two instances                *)

\* The calls of set_version the program makes: refresh_desired with a configured
\* version (package.py:460) and refresh_latest with the lookup's result (package.py:449)
SetVersionCalls ==
    { [version |-> "3.2.1", source |-> "config.json", channel |-> "stable",
       packager |-> "venv"] }
    \cup
    { [version |-> v, source |-> Index, channel |-> "latest", packager |-> ""]
        : v \in {None, "3.2.1"} }

\* The problems the program invalidates a meta with
Problems == {"is not installed"}

\* A .current.json found at start: none, or one that carries no timestamp
\* (written by hand or by another tool)
InitialFiles ==
    { <<>>,
      <<[channel |-> "stable", packager |-> "pex", source |-> "config.json",
         timestamp |-> NoTimestamp, version |-> "3.2.0"]>> }

Instances == {"current", "desired"}
Meta(self) == IF self = "current" THEN current ELSE desired
Other(self) == IF self = "current" THEN desired ELSE current

\* The instance 'self' becomes m, the other one is left alone
Becomes(self, m) ==
    /\ current' = IF self = "current" THEN m ELSE current
    /\ desired' = IF self = "desired" THEN m ELSE desired

MetaFrame ==
    UNCHANGED <<ping, checked, procs, settings,
                dryrun, configured, implementation, remote, diskLatest,
                diskEntryPoints, targets, latest, entry_points>>

MetaSetVersion(self, c) ==
    /\ Becomes(self, set_version(Meta(self), c.version, c.source, c.channel, c.packager, now))
    /\ last' = [op |-> "set_version", self |-> self]
    /\ UNCHANGED <<now, diskCurrent>>
    /\ MetaFrame

MetaSet(self) ==
    /\ Becomes(self, set(Meta(self), Other(self)))
    /\ last' = [op |-> "set", self |-> self]
    /\ UNCHANGED <<now, diskCurrent>>
    /\ MetaFrame

MetaInvalidate(self, problem) ==
    /\ Becomes(self, invalidate(Meta(self), problem))
    /\ last' = [op |-> "invalidate", self |-> self]
    /\ UNCHANGED <<now, diskCurrent>>
    /\ MetaFrame

\* (the program loads and saves metas that have a file: current and latest)
MetaLoad(self) ==
    /\ Meta(self).path # None
    /\ Becomes(self, load(Meta(self), diskCurrent))
    /\ last' = [op |-> "load", self |-> self]
    /\ UNCHANGED <<now, diskCurrent>>
    /\ MetaFrame

MetaSave(self) ==
    /\ Meta(self).path # None
    /\ diskCurrent' = save(Meta(self), diskCurrent, dryrun)
    /\ last' = [op |-> "save", self |-> self]
    /\ UNCHANGED <<now, current, desired>>
    /\ MetaFrame

\* Time passes
MetaTick ==
    /\ now + HalfWindow <= MaxTime
    /\ now' = now + HalfWindow
    /\ last' = [op |-> "tick", self |-> "current"]
    /\ UNCHANGED <<diskCurrent, current, desired>>
    /\ MetaFrame

InitMeta ==
    /\ NoOtherFiles
    /\ now = Epoch
    /\ dryrun = FALSE
    /\ configured = [value |-> None, channel |-> "stable", source |-> "defaults"]
    /\ implementation = "venv"
    /\ remote = None
    /\ diskCurrent \in InitialFiles
    /\ diskLatest = <<>>
    /\ diskEntryPoints = <<>>
    /\ targets = [n \in {Name} |-> "absent"]
    /\ current = VersionMeta(Name, "current")
    /\ latest = VersionMeta(Name, "latest")
    /\ desired = VersionMeta(Name, None)
    /\ entry_points = <<>>
    /\ last = [op |-> "init", self |-> "current"]

NextMeta ==
    \/ \E self \in Instances, c \in SetVersionCalls : MetaSetVersion(self, c)
    \/ \E self \in Instances : MetaSet(self)
    \/ \E self \in Instances, problem \in Problems : MetaInvalidate(self, problem)
    \/ \E self \in Instances : MetaLoad(self)
    \/ \E self \in Instances : MetaSave(self)
    \/ MetaTick

SpecMeta == InitMeta /\ [][NextMeta]_vars

----------------------------------------------------------------------------
(* The Packager operations of one package, and their environment            *)

\* SETTINGS.version(name): an explicit version under the stable channel, or no
\* version under a channel (stable is the default channel)
Configurations ==
    { [value |-> v, channel |-> "stable", source |-> "config.json"] : v \in Versions }
    \cup
    { [value |-> None, channel |-> c, source |-> "defaults"]
        : c \in {"stable", "latest"} }

\* What latest_pypi_version returns: nothing, a version, or a message
Answers == {None, "3.2.1"}

\* The registered packagers (PACKAGERS)
Implementations == {"venv", "pex"}

\* What one run of effective_install meets: whether the builder steps succeed,
\* the entry points discovered, and per entry point whether its delivery succeeds
EveryDelivery == [n \in EntryPointNames |-> TRUE]
NotTheFirst == [n \in EntryPointNames |-> n # Name]
Environments ==
    { [pip |-> FALSE, pex |-> TRUE, found |-> <<"tox">>, placed |-> EveryDelivery,
       delivery |-> "symlink"],
      [pip |-> TRUE, pex |-> FALSE, found |-> <<"tox">>, placed |-> EveryDelivery,
       delivery |-> "symlink"],
      [pip |-> TRUE, pex |-> TRUE, found |-> <<>>, placed |-> EveryDelivery,
       delivery |-> "symlink"],
      [pip |-> TRUE, pex |-> TRUE, found |-> <<"tox">>, placed |-> EveryDelivery,
       delivery |-> "symlink"],
      [pip |-> TRUE, pex |-> TRUE, found |-> <<"tox">>, placed |-> EveryDelivery,
       delivery |-> "bogus"],
      [pip |-> TRUE, pex |-> TRUE, found |-> <<"tox", "tox-quickstart">>,
       placed |-> EveryDelivery, delivery |-> "symlink"],
      [pip |-> TRUE, pex |-> TRUE, found |-> <<"tox", "tox-quickstart">>,
       placed |-> NotTheFirst, delivery |-> "symlink"] }

\* system.abort (fatal): the outcomes after which the process has exited
Aborts == {"abort_desired", "abort_build", "abort_not_cli", "abort_delivery"}
ProcessExited == last.exited

\* The observation of the last operation: its outcome, the number of calls of
\* effective_install, of Deliverer.install and of the remote lookup it made, what
\* the entry point discovery found, whether the process has exited, and settled:
\* "wet"/"dry" when the last install(force) call returned (in a real/dry run) and
\* neither the configuration nor the index has changed since, "no" otherwise
Obs(op, outcome, eff, deliveries, lookups, discovered, settled) ==
    [ op |-> op, outcome |-> outcome, effective_installs |-> eff,
      deliveries |-> deliveries, lookups |-> lookups, discovered |-> discovered,
      exited |-> outcome \in Aborts, settled |-> settled ]
Plain(op, lookups) == Obs(op, "done", 0, 0, lookups, "not_run", "no")
InstallOp(force, bootstrap) ==
    IF bootstrap THEN "bootstrap" ELSE IF force THEN "install_force" ELSE "install"
Installs == {"install", "install_force"}

\* Packager.__init__ in a new process (main sets system.DRYRUN, PACKAGERS.resolved
\* picks the implementation)
NewProcess(d, impl) ==
    /\ dryrun' = d
    /\ implementation' = impl
    /\ current' = VersionMeta(Name, "current")
    /\ latest' = VersionMeta(Name, "latest")
    /\ desired' = VersionMeta(Name, None)
    /\ entry_points' = <<>>
    /\ last' = IF impl = implementation
               THEN [Plain("start", 0) EXCEPT !.settled = last.settled]
               ELSE Plain("start", 0)
    /\ UNCHANGED <<ping, checked, procs, settings,
                   now, configured, remote, diskCurrent, diskLatest, diskEntryPoints, targets>>

RefreshCurrent ==
    /\ ~ProcessExited
    /\ current' = refresh_current(current, diskCurrent)
    /\ last' = Plain("refresh_current", 0)
    /\ UNCHANGED <<ping, checked, procs, settings,
                   now, dryrun, configured, implementation, remote, diskCurrent, diskLatest,
                   diskEntryPoints, targets, latest, desired, entry_points>>

RefreshLatest ==
    /\ ~ProcessExited
    /\ LET r == refresh_latest(latest, diskLatest, now, dryrun, remote)
       IN  /\ latest' = r.meta
           /\ diskLatest' = r.file
           /\ last' = Plain("refresh_latest", r.lookups)
    /\ UNCHANGED <<ping, checked, procs, settings,
                   now, dryrun, configured, implementation, remote, diskCurrent,
                   diskEntryPoints, targets, current, desired, entry_points>>

RefreshDesired ==
    /\ ~ProcessExited
    /\ LET r == refresh_desired(desired, latest, diskLatest, configured, implementation,
                                now, dryrun, remote)
       IN  /\ desired' = r.desired
           /\ latest' = r.latest
           /\ diskLatest' = r.file
           /\ last' = Plain("refresh_desired", r.lookups)
    /\ UNCHANGED <<ping, checked, procs, settings,
                   now, dryrun, configured, implementation, remote, diskCurrent,
                   diskEntryPoints, targets, current, entry_points>>

\* (Packager.install, were it to persist current before it calls effective_install)
Install_persists_first(force, bootstrap, env) ==
    /\ ~ProcessExited
    /\ LET cur == IF bootstrap THEN current ELSE refresh_current(current, diskCurrent)
           rd  == IF bootstrap
                  THEN [desired |-> desired, latest |-> latest, file |-> diskLatest, lookups |-> 0]
                  ELSE refresh_desired(desired, latest, diskLatest, configured,
                                       implementation, now, dryrun, remote)
           ei  == effective_install(implementation, rd.desired.version, entry_points,
                                    diskEntryPoints, dryrun, targets,
                                    file_exists(cur, diskCurrent), env)
           set_current == set(cur, rd.desired)
           op == InstallOp(force, bootstrap)
           settled == IF bootstrap THEN "no" ELSE IF dryrun THEN "dry" ELSE "wet"
       IN  /\ desired' = rd.desired
           /\ latest' = rd.latest
           /\ diskLatest' = rd.file
           /\ IF ~bootstrap /\ ~valid(rd.desired)
              THEN /\ last' = Obs(op, "abort_desired", 0, 0, rd.lookups, "not_run", "no")
                   /\ current' = cur
                   /\ UNCHANGED <<diskCurrent, diskEntryPoints, targets, entry_points>>
              ELSE IF ~bootstrap /\ ~force /\ equivalent(cur, rd.desired)
              THEN /\ last' = Obs(op, "already_installed", 0, 0, rd.lookups, "not_run",
                                  settled)
                   /\ current' = cur
                   /\ UNCHANGED <<diskCurrent, diskEntryPoints, targets, entry_points>>
              ELSE IF ei.outcome \in Aborts
              THEN /\ last' = Obs(op, ei.outcome, 1, ei.deliveries, rd.lookups,
                                  ei.discovered, "no")
                   /\ current' = cur
                   /\ entry_points' = ei.mem
                   /\ diskEntryPoints' = ei.file
                   /\ targets' = ei.targets
                   /\ diskCurrent' = save(set_current, diskCurrent, dryrun)
              ELSE /\ last' = Obs(op, "installed", 1, ei.deliveries, rd.lookups,
                                  ei.discovered, settled)
                   /\ current' = set_current
                   /\ diskCurrent' = save(set_current, diskCurrent, dryrun)
                   /\ entry_points' = ei.mem
                   /\ diskEntryPoints' = ei.file
                   /\ targets' = ei.targets
    /\ UNCHANGED <<ping, checked, procs, settings,
                   now, dryrun, configured, implementation, remote>>

\* Packager.install(force, bootstrap)
Install(force, bootstrap, env) ==
    /\ ~ProcessExited
    /\ LET cur == IF bootstrap THEN current ELSE refresh_current(current, diskCurrent)
           rd  == IF bootstrap
                  THEN [desired |-> desired, latest |-> latest, file |-> diskLatest, lookups |-> 0]
                  ELSE refresh_desired(desired, latest, diskLatest, configured,
                                       implementation, now, dryrun, remote)
           ei  == effective_install(implementation, rd.desired.version, entry_points,
                                    diskEntryPoints, dryrun, targets,
                                    file_exists(cur, diskCurrent), env)
           set_current == set(cur, rd.desired)
           op == InstallOp(force, bootstrap)
           settled == IF bootstrap THEN "no" ELSE IF dryrun THEN "dry" ELSE "wet"
       IN  /\ desired' = rd.desired
           /\ latest' = rd.latest
           /\ diskLatest' = rd.file
           /\ IF ~bootstrap /\ ~valid(rd.desired)
              THEN /\ last' = Obs(op, "abort_desired", 0, 0, rd.lookups, "not_run", "no")
                   /\ current' = cur
                   /\ UNCHANGED <<diskCurrent, diskEntryPoints, targets, entry_points>>
              ELSE IF ~bootstrap /\ ~force /\ equivalent(cur, rd.desired)
              THEN /\ last' = Obs(op, "already_installed", 0, 0, rd.lookups, "not_run",
                                  settled)
                   /\ current' = cur
                   /\ UNCHANGED <<diskCurrent, diskEntryPoints, targets, entry_points>>
              ELSE IF ei.outcome \in Aborts
              THEN /\ last' = Obs(op, ei.outcome, 1, ei.deliveries, rd.lookups,
                                  ei.discovered, "no")
                   /\ current' = cur
                   /\ entry_points' = ei.mem
                   /\ diskEntryPoints' = ei.file
                   /\ targets' = ei.targets
                   /\ UNCHANGED diskCurrent
              ELSE /\ last' = Obs(op, "installed", 1, ei.deliveries, rd.lookups,
                                  ei.discovered, settled)
                   /\ current' = set_current
                   /\ diskCurrent' = save(set_current, diskCurrent, dryrun)
                   /\ entry_points' = ei.mem
                   /\ diskEntryPoints' = ei.file
                   /\ targets' = ei.targets
    /\ UNCHANGED <<ping, checked, procs, settings,
                   now, dryrun, configured, implementation, remote>>

\* The configuration is edited
SetConfig(c) ==
    /\ c # configured
    /\ configured' = c
    /\ last' = [Plain("config", 0) EXCEPT !.exited = last.exited]
    /\ UNCHANGED <<ping, checked, procs, settings,
                   now, dryrun, implementation, remote, diskCurrent, diskLatest,
                   diskEntryPoints, targets, current, latest, desired, entry_points>>

\* The index publishes, or stops answering
SetRemote(r) ==
    /\ r # remote
    /\ remote' = r
    /\ last' = [Plain("index", 0) EXCEPT !.exited = last.exited]
    /\ UNCHANGED <<ping, checked, procs, settings,
                   now, dryrun, configured, implementation, diskCurrent, diskLatest,
                   diskEntryPoints, targets, current, latest, desired, entry_points>>

\* Time passes
Tick ==
    /\ now + HalfWindow <= MaxTime
    /\ now' = now + HalfWindow
    /\ UNCHANGED <<ping, checked, procs, settings,
                   last, dryrun, configured, implementation, remote, diskCurrent, diskLatest,
                   diskEntryPoints, targets, current, latest, desired, entry_points>>

Init ==
    /\ NoOtherFiles
    /\ now = Epoch
    /\ dryrun \in BOOLEAN
    /\ configured \in Configurations
    /\ implementation \in Implementations
    /\ remote \in Answers
    /\ diskCurrent = <<>>
    /\ diskLatest = <<>>
    /\ diskEntryPoints = <<>>
    /\ targets = [n \in EntryPointNames |-> IF n = Name THEN Foreign ELSE Absent]
    /\ current = VersionMeta(Name, "current")
    /\ latest = VersionMeta(Name, "latest")
    /\ desired = VersionMeta(Name, None)
    /\ entry_points = <<>>
    /\ last = Plain("start", 0)

Next ==
    \/ \E d \in BOOLEAN, impl \in Implementations : NewProcess(d, impl)
    \/ \E force \in BOOLEAN, env \in Environments : Install(force, FALSE, env)
    \/ \E env \in Environments : Install(FALSE, TRUE, env)
    \/ \E c \in Configurations : SetConfig(c)
    \/ \E r \in Answers : SetRemote(r)

Spec == Init /\ [][Next]_vars

\* The refresh operations on their own, as 'check' and 'list' use them. The
\* package is not installed, or installed at 3.2.0, or its .current.json holds a
\* record without version
InstalledFiles ==
    { <<>> }
    \cup
    { <<[channel |-> "stable", packager |-> "venv", source |-> "config.json",
         timestamp |-> Epoch, version |-> v]>> : v \in {"", "3.2.0"} }

InitRefresh ==
    /\ NoOtherFiles
    /\ now = Epoch
    /\ dryrun = FALSE
    /\ configured = [value |-> None, channel |-> "stable", source |-> "defaults"]
    /\ implementation = "venv"
    /\ remote = None
    /\ diskCurrent \in InstalledFiles
    /\ diskLatest = <<>>
    /\ diskEntryPoints = IF diskCurrent = <<>> THEN <<>> ELSE << <<Name>> >>
    /\ targets = [n \in EntryPointNames |->
                    IF n = Name /\ diskCurrent # <<>> THEN "3.2.0" ELSE Absent]
    /\ current = VersionMeta(Name, "current")
    /\ latest = VersionMeta(Name, "latest")
    /\ desired = VersionMeta(Name, None)
    /\ entry_points = <<>>
    /\ last = Plain("start", 0)

NextRefresh ==
    \/ \E d \in BOOLEAN, impl \in Implementations : NewProcess(d, impl)
    \/ RefreshCurrent
    \/ RefreshLatest
    \/ RefreshDesired
    \/ \E c \in Configurations : SetConfig(c)
    \/ \E r \in Answers : SetRemote(r)

SpecRefresh == InitRefresh /\ [][NextRefresh]_vars

\* The 'latest' channel over time: the index answers with a version, with nothing,
\* or with a message, and the clock advances between the refreshes
LatestAnswers == Answers \cup {LookupProblem}

InitLatest ==
    /\ NoOtherFiles
    /\ now = Epoch
    /\ dryrun = FALSE
    /\ configured = [value |-> None, channel |-> "latest", source |-> "defaults"]
    /\ implementation = "venv"
    /\ remote \in LatestAnswers
    /\ diskCurrent = <<>>
    /\ diskLatest = <<>>
    /\ diskEntryPoints = <<>>
    /\ targets = [n \in EntryPointNames |-> Absent]
    /\ current = VersionMeta(Name, "current")
    /\ latest = VersionMeta(Name, "latest")
    /\ desired = VersionMeta(Name, None)
    /\ entry_points = <<>>
    /\ last = Plain("start", 0)

NextLatest ==
    \/ \E d \in BOOLEAN : NewProcess(d, implementation)
    \/ RefreshLatest
    \/ RefreshDesired
    \/ \E r \in LatestAnswers : SetRemote(r)
    \/ Tick

SpecLatest == InitLatest /\ [][NextLatest]_vars

----------------------------------------------------------------------------
(* Claims about Packager.install, checked under Spec                         *)

\* The refreshed current of an install step, and whether it matches the refreshed
\* desired in version and packager
RefreshedCurrent == refresh_current(current, diskCurrent)
SameVersionAndPackager(a, b) == a.version = b.version /\ a.packager = b.packager
Persisted(file, m) == file # <<>> /\ SameVersionAndPackager(file[1], m)

\* What C1 says of the number of calls of effective_install and of current in
\* memory after a non-bootstrap install whose refreshed desired is valid
C1_CallsAndMemory ==
    /\ last'.effective_installs =
          IF last'.op = "install_force" \/ ~SameVersionAndPackager(RefreshedCurrent, desired')
          THEN 1 ELSE 0
    /\ last'.outcome = "installed" =>
          /\ last'.effective_installs = 1
          /\ SameVersionAndPackager(current', desired')

\* C1 as stated: for a non-bootstrap install whose refreshed desired is valid,
\* effective_install is called exactly once if force is set or current is not
\* equivalent to desired, and not at all otherwise; when it is called and
\* returns, current has desired's version and packager and is persisted.
C1_Original ==
    [][(last'.op \in Installs /\ valid(desired')) =>
          /\ C1_CallsAndMemory
          /\ last'.outcome = "installed" => Persisted(diskCurrent', desired')]_vars

\* C1, amended: as C1, but current is persisted only when the run is not a dry
\* run; in a dry run the install returns with current updated in memory and the
\* persisted current left as it was.
C1_InstallCallsEffectiveInstallOnce ==
    [][(last'.op \in Installs /\ valid(desired')) =>
          /\ C1_CallsAndMemory
          /\ last'.outcome = "installed" =>
                IF dryrun THEN diskCurrent' = diskCurrent
                ELSE Persisted(diskCurrent', desired')]_vars

\* C1 witness: install() without force has upgraded the package from 3.2.0 (whose
\* second entry point is still delivered) to 3.2.1 and persisted it, one
\* effective install made.
C1_Witness ==
    /\ last.op = "install"
    /\ last.outcome = "installed"
    /\ last.effective_installs = 1
    /\ ~dryrun
    /\ current.version = "3.2.1"
    /\ Persisted(diskCurrent, desired)
    /\ targets[Name] = "3.2.1"
    /\ targets["tox-quickstart"] = "3.2.0"

\* What C2 says of an install(force=False) step
C2_SecondCallIsNoOp ==
    /\ last'.outcome = "already_installed"
    /\ last'.effective_installs = 0
    /\ last'.deliveries = 0
    /\ targets' = targets
    /\ diskCurrent' = diskCurrent

\* C2 as stated: when install(force=False) is called after an install that
\* returned, the configured and the remote version unchanged in between, the
\* second call makes no effective_install and no delivery and only reports
\* 'is already installed'.
C2_Original ==
    [][(last.settled \in {"wet", "dry"} /\ last'.op = "install") =>
          C2_SecondCallIsNoOp]_vars

\* C2, amended: the same, provided the first call was not a dry run (a dry-run
\* install persists nothing, so the call after it installs again).
C2_InstallTwiceIsIdempotent ==
    [][(last.settled = "wet" /\ last'.op = "install") => C2_SecondCallIsNoOp]_vars

\* C2 witness: a second install(force=False) has reported 'is already installed'
\* for a package that the first one installed.
C2_Witness ==
    /\ last.op = "install"
    /\ last.outcome = "already_installed"
    /\ last.settled = "wet"
    /\ Persisted(diskCurrent, desired)
    /\ targets[Name] = desired.version

\* C3: when no explicit version is configured and the channel is not 'latest',
\* the refreshed desired is invalid with problem exactly "can't determine
\* <channel> version", and install (forced or not) aborts without calling
\* effective_install, without any delivery and without changing the persisted
\* current.
C3_NoVersionNoLatestAborts ==
    [][(last'.op \in Installs /\ ~truthy(configured.value)
                              /\ configured.channel # "latest") =>
          /\ ~valid(desired')
          /\ desired'.problem = "can't determine " \o configured.channel \o " version"
          /\ last'.outcome = "abort_desired"
          /\ last'.effective_installs = 0
          /\ last'.deliveries = 0
          /\ last'.lookups = 0
          /\ targets' = targets
          /\ diskCurrent' = diskCurrent]_vars

\* C3 witness: an install of an installed package has aborted because the
\* channel 'stable' has no version.
C3_Witness ==
    /\ last.op \in Installs
    /\ last.outcome = "abort_desired"
    /\ configured.channel = "stable"
    /\ desired.problem = "can't determine stable version"
    /\ diskCurrent # <<>>

\* C4: when the entry point discovery finds no console-script entry point, the
\* install aborts with the 'not a CLI' message, perform_delivery is not reached
\* (no target is created or replaced), the entry-points file is not written and
\* the persisted current is not updated.
C4_NoEntryPointsAborts ==
    [][(last'.op \in Installs \cup {"bootstrap"} /\ last'.discovered = "empty") =>
          /\ last'.outcome = "abort_not_cli"
          /\ last'.deliveries = 0
          /\ targets' = targets
          /\ diskEntryPoints' = diskEntryPoints
          /\ diskCurrent' = diskCurrent]_vars

\* C4 witness: the upgrade of an installed package has aborted as 'not a CLI',
\* the entry points of the installed version still on file.
C4_Witness ==
    /\ last.outcome = "abort_not_cli"
    /\ last.discovered = "empty"
    /\ entry_points = << <<>> >>
    /\ diskEntryPoints # <<>>
    /\ diskCurrent # <<>>
    /\ targets[Name] = diskCurrent[1].version

\* C5: in every reachable state, a package whose install completed (current
\* persisted as valid by install, or install returned in a dry run) has a
\* non-empty entry-points list, on file and as the running process sees it.
C5_InstalledHasEntryPoints ==
    /\ (diskCurrent # <<>> /\ truthy(diskCurrent[1].version)) =>
          /\ diskEntryPoints # <<>>
          /\ diskEntryPoints[1] # <<>>
          /\ ~ProcessExited => EntryPointsProperty(entry_points, diskEntryPoints, dryrun) # <<>>
    /\ last.outcome = "installed" =>
          EntryPointsProperty(entry_points, diskEntryPoints, dryrun) # <<>>

\* C5 witness: a dry-run install has returned for a package installed earlier
\* with two entry points on file.
C5_Witness ==
    /\ last.outcome = "installed"
    /\ dryrun
    /\ diskCurrent # <<>>
    /\ diskEntryPoints = << <<"tox", "tox-quickstart">> >>
    /\ entry_points = diskEntryPoints

----------------------------------------------------------------------------
(* Claims about VersionMeta, checked under SpecMeta                          *)

\* C6: for every VersionMeta, after any sequence of set_version, set, invalidate
\* and load, valid is true if and only if version is non-empty and there is no
\* problem (problem is None).
C6_ValidIffVersionAndNoProblem ==
    \A self \in Instances :
        valid(Meta(self)) <=>
            (Meta(self).version \notin {"", None} /\ Meta(self).problem = None)

\* C6 witness: a meta that carries a version and a problem at once (a set_version
\* after an invalidate), which is where valid and "has a version" differ.
C6_Witness ==
    /\ last.op = "set_version"
    /\ Meta(last.self).version = "3.2.1"
    /\ Meta(last.self).problem = "is not installed"
    /\ ~valid(Meta(last.self))

\* C7 as stated: still_valid if and only if valid and (now - timestamp) is
\* strictly less than the validity window, a meta that carries no timestamp
\* being not still_valid.
C7_Original ==
    \A self \in Instances :
        still_valid(Meta(self), now) <=>
            /\ valid(Meta(self))
            /\ Meta(self).timestamp # NoTimestamp
            /\ (now - Meta(self).timestamp) < LatestValidity

\* C7 as amended: still_valid if and only if the meta is valid and either carries
\* no timestamp or (now - timestamp) is strictly less than the 30-minute window.
C7_StillValidIff ==
    \A self \in Instances :
        still_valid(Meta(self), now) <=>
            /\ valid(Meta(self))
            /\ \/ Meta(self).timestamp = NoTimestamp
               \/ (now - Meta(self).timestamp) < LatestValidity

\* C7 witness: a valid meta whose timestamp is exactly one window old (no longer
\* still_valid) next to a valid meta without timestamp (still_valid).
C7_Witness ==
    /\ valid(current) /\ current.timestamp = NoTimestamp /\ still_valid(current, now)
    /\ valid(desired) /\ now - desired.timestamp = LatestValidity
    /\ ~still_valid(desired, now)

\* C8: immediately after set_version with a version, whatever the prior state of
\* the meta (one previously invalidated included), the meta is still_valid.
C8_FreshlySetIsStillValid ==
    (last.op = "set_version" /\ truthy(Meta(last.self).version))
        => still_valid(Meta(last.self), now)

C10_Original ==
    last.op = "set" =>
        /\ to_dict(Meta(last.self)) = to_dict(Other(last.self))
        /\ Meta(last.self).problem = Other(last.self).problem
        /\ current.name = Name /\ current.path = "current"
        /\ desired.name = Name /\ desired.path = None

\* C10 as amended: a.set(b) copies problem, channel, source, timestamp and version
\* from b; it copies packager when b.packager is non-empty and leaves a's packager
\* as it was when b.packager is empty; name and path of a are unchanged.
C10_SetCopiesButKeepsPackagerWhenEmpty ==
    [][ last'.op = "set" =>
          LET a     == IF last'.self = "current" THEN current ELSE desired
              after == IF last'.self = "current" THEN current' ELSE desired'
              b     == IF last'.self = "current" THEN desired ELSE current
          IN  /\ after.problem = b.problem
              /\ after.channel = b.channel
              /\ after.source = b.source
              /\ after.timestamp = b.timestamp
              /\ after.version = b.version
              /\ after.packager = (IF b.packager = "" THEN a.packager ELSE b.packager)
              /\ after.name = a.name
              /\ after.path = a.path ]_vars

\* C10 witness: a set from a meta whose packager is empty has left the receiver
\* with its own packager and with the other fields of the source.
C10_Witness ==
    /\ last.op = "set"
    /\ Other(last.self).packager = ""
    /\ Meta(last.self).packager = "venv"
    /\ Meta(last.self).version = Other(last.self).version
    /\ truthy(Meta(last.self).version)

----------------------------------------------------------------------------
(* Claims about dry runs, delivery and the refresh operations               *)

C30_AbortKeepsPersistedCurrent ==
    [][last'.op \in Installs \cup {"bootstrap"} =>
          /\ (last'.effective_installs = 1 /\ last'.outcome \in Aborts) =>
                diskCurrent' = diskCurrent
          /\ diskCurrent' # diskCurrent => last'.outcome = "installed"]_vars

\* C30 witness: the forced install of an installed package has aborted on an
\* unknown delivery type, after the entry points were discovered.
C30_Witness ==
    /\ last.op = "install_force"
    /\ last.outcome = "abort_delivery"
    /\ last.effective_installs = 1
    /\ last.discovered = "some"
    /\ ~dryrun
    /\ diskCurrent # <<>>
    /\ diskCurrent[1].version # desired.version

----------------------------------------------------------------------------
(* DeliveryMethod.install and its variants, on one target and its source     *)

\* The paths of one delivery: <base>/tox and the artifact it is delivered from
TargetPath == "base/tox"
SourcePath == "cache/tox-3.2.1/bin/tox"
DeliveryPaths == {TargetPath, SourcePath}

\* What may be at a path: nothing, a foreign file or folder, the built artifact,
\* what a variant leaves when it succeeds, or what it leaves when it raises midway
Artifact == "artifact"
Folder == "folder"
Partial == "partial"
Occupants == {Absent, Foreign, Folder}

\* DeliverySymlink._install: os.symlink creates the link or raises, nothing in between
DeliverySymlink_install(fs, raises) ==
    IF raises THEN fs ELSE [fs EXCEPT ![TargetPath] = "symlink"]

\* DeliveryWrap._install: the wrapper script is written, then made executable
DeliveryWrap_install(fs, raises) ==
    [fs EXCEPT ![TargetPath] = IF raises THEN Partial ELSE "wrap"]

\* DeliveryCopy._install: the source is copied to the target, and stays
\* (DeliveryCopy._install, were it to move the source instead)
DeliveryCopy_install_by_move(fs, raises) ==
    IF raises THEN [fs EXCEPT ![TargetPath] = Partial]
    ELSE [fs EXCEPT ![TargetPath] = "copy", ![SourcePath] = Absent]
DeliveryCopy_install(fs, raises) ==
    [fs EXCEPT ![TargetPath] = IF raises THEN Partial ELSE "copy"]

\* (DeliveryMethod.install, were it to look at the source before it deletes
\* the target)
Deliverer_install_source_first(variant, fs, dry, raises) ==
    IF ~dry /\ fs[SourcePath] = Absent THEN fs
    ELSE LET deleted == [fs EXCEPT ![TargetPath] = delete_file(fs[TargetPath], dry)]
         IN  IF dry THEN deleted
             ELSE IF variant = "symlink" THEN DeliverySymlink_install(deleted, raises)
             ELSE IF variant = "wrap" THEN DeliveryWrap_install(deleted, raises)
             ELSE DeliveryCopy_install(deleted, raises)

\* DeliveryMethod.install(packager, target, source) of a variant, on the
\* filesystem fs; 'raises' says that the variant's _install raises
Deliverer_install(variant, fs, dry, raises) ==
    LET deleted == [fs EXCEPT ![TargetPath] = delete_file(fs[TargetPath], dry)]
    IN  IF dry THEN deleted
        ELSE IF deleted[SourcePath] = Absent THEN deleted
        ELSE IF variant = "symlink" THEN DeliverySymlink_install(deleted, raises)
        ELSE IF variant = "wrap" THEN DeliveryWrap_install(deleted, raises)
        ELSE DeliveryCopy_install(deleted, raises)

\* system.touch(path): write_contents(path, ""), which sets the time of the
\* file and writes nothing in a dry run
\* (the same, were it to write nothing)
touch_nothing(file, t, dry) ==
    file
touch(file, t, dry) ==
    IF dry THEN file ELSE <<[mtime |-> t]>>

\* DeliveryWrap._install touches <cache>/<name>/.checked before it writes the
\* wrapper (the same, were the sentinel left alone)
DeliveryWrap_touch_skipped(file, t) ==
    file
DeliveryWrap_touch(file, t) ==
    touch(file, t, FALSE)

\* The sentinel after DeliveryMethod.install(packager, target, source): only
\* the wrap variant touches it, and only when its _install is reached
Deliverer_checked(variant, fs, file, t, dry) ==
    IF ~dry /\ fs[SourcePath] # Absent /\ variant = "wrap"
    THEN DeliveryWrap_touch(file, t)
    ELSE file

DeliveryFrame ==
    UNCHANGED <<ping, procs, settings,
                now, configured, implementation, remote, diskCurrent, diskLatest,
                diskEntryPoints, current, latest, desired, entry_points>>

\* One call of DeliveryMethod.install; 'again' records that it repeats the call
\* before it (same variant, same outcome of _install), nothing else in between
Deliver(variant, raises) ==
    /\ targets' = Deliverer_install(variant, targets, dryrun, raises)
    /\ checked' = Deliverer_checked(variant, targets, checked, now, dryrun)
    /\ last' = [op |-> "deliver", variant |-> variant, raises |-> raises,
                again |-> last.op = "deliver" /\ last.variant = variant
                          /\ last.raises = raises,
                before |-> targets[TargetPath]]
    /\ UNCHANGED dryrun
    /\ DeliveryFrame

\* Something else comes to occupy the target, or the artifact is built or removed
Occupy(path, c) ==
    /\ c # targets[path]
    /\ targets' = [targets EXCEPT ![path] = c]
    /\ last' = [op |-> "occupy", variant |-> "", raises |-> FALSE, again |-> FALSE,
                before |-> targets[TargetPath]]
    /\ UNCHANGED dryrun
    /\ UNCHANGED checked
    /\ DeliveryFrame

\* The next run has its own --dryrun flag
SetDryrun(d) ==
    /\ d # dryrun
    /\ dryrun' = d
    /\ last' = [op |-> "run", variant |-> "", raises |-> FALSE, again |-> FALSE,
                before |-> targets[TargetPath]]
    /\ UNCHANGED targets
    /\ UNCHANGED checked
    /\ DeliveryFrame

InitDelivery ==
    /\ NoOtherFiles
    /\ now = Epoch
    /\ dryrun \in BOOLEAN
    /\ configured = [value |-> None, channel |-> "stable", source |-> "defaults"]
    /\ implementation = "venv"
    /\ remote = None
    /\ diskCurrent = <<>>
    /\ diskLatest = <<>>
    /\ diskEntryPoints = <<>>
    /\ targets \in [DeliveryPaths -> {Absent}]
    /\ current = VersionMeta(Name, "current")
    /\ latest = VersionMeta(Name, "latest")
    /\ desired = VersionMeta(Name, None)
    /\ entry_points = <<>>
    /\ last = [op |-> "run", variant |-> "", raises |-> FALSE, again |-> FALSE,
               before |-> Absent]

NextDelivery ==
    \/ \E variant \in Variants, raises \in BOOLEAN : Deliver(variant, raises)
    \/ \E c \in Occupants : Occupy(TargetPath, c)
    \/ \E c \in {Absent, Artifact} : Occupy(SourcePath, c)
    \/ \E d \in BOOLEAN : SetDryrun(d)

SpecDelivery == InitDelivery /\ [][NextDelivery]_vars

\* C13: Deliverer.install is idempotent for each variant (symlink, copy, wrap):
\* whatever occupied the target before, a call that repeats the call before it
\* leaves the target (and the source) as the first call left them.
C13_DeliveryIsIdempotent ==
    [][(last'.op = "deliver" /\ last'.again) => targets' = targets]_vars

\* C13 witness: a copy has been delivered a second time from an existing
\* source, onto the copy that the first delivery left.
C13_Witness ==
    /\ last.op = "deliver"
    /\ last.again
    /\ last.variant = "copy"
    /\ ~last.raises
    /\ ~dryrun
    /\ last.before = "copy"
    /\ targets[TargetPath] = "copy"
    /\ targets[SourcePath] = Artifact

----------------------------------------------------------------------------
(* Claims about the refresh operations                                       *)

\* C14: refresh_current never consults the remote index and never modifies
\* latest or desired (nor any file); after it returns, current is the persisted
\* record when that record is valid, and otherwise (record missing or without
\* version) invalid with problem 'is not installed'.
C14_RefreshCurrentIsLocal ==
    [][last'.op = "refresh_current" =>
          /\ last'.lookups = 0
          /\ UNCHANGED <<latest, desired, diskLatest, diskCurrent, diskEntryPoints, targets>>
          /\ IF diskCurrent # <<>> /\ diskCurrent[1].version \notin {"", None}
             THEN /\ to_dict(current') = diskCurrent[1]
                  /\ current'.problem = None
             ELSE /\ current'.version = ""
                  /\ current'.problem = "is not installed"]_vars

\* C14 witness: refresh_current has met a record without version and left
\* current 'is not installed', next to a valid desired computed before.
C14_Witness ==
    /\ last.op = "refresh_current"
    /\ diskCurrent # <<>>
    /\ diskCurrent[1].version = ""
    /\ current.problem = "is not installed"
    /\ desired.version = "3.2.1"
    /\ desired.problem = None

\* C15: when an explicit version is configured, refresh_desired sets desired to
\* that version with the configured channel and source and packager = the
\* backend in use, stamped now, and short-circuits: the remote index is not
\* consulted and latest (in memory and on disk) is left unchanged.
C15_ExplicitVersionShortCircuits ==
    [][(last'.op = "refresh_desired" /\ configured.value \notin {"", None}) =>
          /\ desired'.version = configured.value
          /\ desired'.channel = configured.channel
          /\ desired'.source = configured.source
          /\ desired'.packager = implementation
          /\ desired'.timestamp = now
          /\ last'.lookups = 0
          /\ UNCHANGED <<latest, diskLatest, current, diskCurrent>>]_vars

\* C15 witness: refresh_desired under the pex backend has stamped the configured
\* 3.2.0 while the index offers 3.2.1 and no latest is cached.
C15_Witness ==
    /\ last.op = "refresh_desired"
    /\ configured.value = "3.2.0"
    /\ implementation = "pex"
    /\ remote = "3.2.1"
    /\ desired.version = "3.2.0"
    /\ desired.packager = "pex"
    /\ desired.channel = "stable"
    /\ latest.version = ""
    /\ diskLatest = <<>>

\* The refresh operations that may consult the index
RefreshOps == {"refresh_latest", "refresh_desired"}

\* The persisted latest record is within its validity window
CachedLatestIsFresh ==
    /\ diskLatest # <<>>
    /\ diskLatest[1].version \notin {"", None}
    /\ now - diskLatest[1].timestamp < LatestValidity

C17_FailedLookupIsNotAVersion ==
    [][(/\ last'.op \in RefreshOps /\ now' = now
        /\ last'.lookups = 1
        /\ remote \notin Versions) =>
          /\ ~valid(latest')
          /\ latest'.problem \notin {"", None}
          /\ latest'.version # remote
          /\ diskLatest' = diskLatest
          /\ last'.op = "refresh_desired" => ~valid(desired')]_vars

\* C18: across any sequence of installs (each of which refreshes current and
\* desired, and latest on the 'latest' channel), the only records written are
\* current's and latest's, each from the meta of that name; desired has no
\* backing file, starts blank in each invocation and is recomputed from the
\* configuration by the refresh.
C18_OnlyCurrentAndLatestArePersisted ==
    [][/\ desired'.path = None
       /\ current'.path = "current"
       /\ latest'.path = "latest"
       /\ diskCurrent' # diskCurrent => diskCurrent' = <<to_dict(current')>>
       /\ diskLatest' # diskLatest => diskLatest' = <<to_dict(latest')>>
       /\ last'.op = "start" => to_dict(desired') = to_dict(VersionMeta(Name, None))
       /\ (last'.op \in Installs /\ configured.value \notin {"", None}) =>
             desired'.version = configured.value]_vars

\* C18 witness: both records are on disk after an install on the 'latest'
\* channel, and a later invocation has recomputed desired from a configuration
\* that now names 3.2.0.
C18_Witness ==
    /\ diskLatest # <<>>
    /\ diskCurrent # <<>>
    /\ diskLatest[1].version = "3.2.1"
    /\ last.op \in Installs
    /\ configured.value = "3.2.0"
    /\ desired.version = "3.2.0"
    /\ desired.path = None

----------------------------------------------------------------------------
(* Packager.cleanup, on the install folder <cache>/tox                       *)

\* File names as sequences of characters, so that startswith is computed
NoName == <<>>
DistEntry == <<"d", "i", "s", "t">>
HiddenEntry == <<".", "c", "u", "r", "r", "e", "n", "t", ".", "j", "s", "o", "n">>
OtherEntry == <<"l", "i", "b">>
CharsOf(n) == IF n = "tox" THEN <<"t", "o", "x">> ELSE <<"t", "o", "x", "-", "q", "u", "i", "c", "k", "s", "t", "a", "r", "t">>
FolderEntries ==
    { DistEntry, HiddenEntry, OtherEntry,
      <<"t", "o", "x", "-", "3", ".", "2", ".", "0">>,
      <<"t", "o", "x", "-", "3", ".", "2", ".", "1">>,
      <<"t", "o", "x", "-", "q", "u", "i", "c", "k", "s", "t", "a", "r", "t", "-", "3", ".", "2", ".", "0">>,
      <<"t", "o", "x", "-", "q", "u", "i", "c", "k", "s", "t", "a", "r", "t", "-", "3", ".", "2", ".", "1">> }

\* Bound of the model: the modification times of the entries are 1..MaxMtime
\* (0 stands for an entry that does not exist)
MaxMtime == 2
NoEntry == 0

\* str.startswith
startswith(text, name) ==
    /\ Len(name) <= Len(text)
    /\ \A i \in 1..Len(name) : text[i] = name[i]

\* Code points, and the order of Python strings
Ord(c) ==
    CASE c = "-" -> 45 [] c = "." -> 46 [] c = "0" -> 48 [] c = "1" -> 49
      [] c = "2" -> 50 [] c = "3" -> 51 [] c = "a" -> 97 [] c = "b" -> 98
      [] c = "c" -> 99 [] c = "d" -> 100 [] c = "e" -> 101 [] c = "i" -> 105
      [] c = "j" -> 106 [] c = "k" -> 107 [] c = "l" -> 108 [] c = "n" -> 110
      [] c = "o" -> 111 [] c = "q" -> 113 [] c = "r" -> 114 [] c = "s" -> 115
      [] c = "t" -> 116 [] c = "u" -> 117 [] c = "x" -> 120
StrLess(a, b) ==
    \E i \in 1..(Len(a) + 1) :
        /\ \A j \in 1..(i - 1) : j <= Len(b) /\ a[j] = b[j]
        /\ \/ i = Len(a) + 1 /\ Len(b) > Len(a)
           \/ i <= Len(a) /\ i <= Len(b) /\ Ord(a[i]) < Ord(b[i])

\* find_prefix(prefixes, text): the longest name of 'prefixes' that text starts with
\* (find_prefix, were it to settle for the shortest match)
find_prefix_shortest(prefixes, text) ==
    LET matching == {n \in prefixes : n # NoName /\ startswith(text, n)}
    IN  IF text = NoName \/ prefixes = {} \/ matching = {} THEN NoName
        ELSE CHOOSE n \in matching : \A m \in matching : Len(n) <= Len(m)
find_prefix(prefixes, text) ==
    LET matching == {n \in prefixes : n # NoName /\ startswith(text, n)}
    IN  IF text = NoName \/ prefixes = {} \/ matching = {} THEN NoName
        ELSE CHOOSE n \in matching : \A m \in matching : Len(m) <= Len(n)

\* Packager.cleanup on the folder fs (entry -> modification time), eps being
\* self.entry_points: the build cache is deleted, then of each group of entries
\* all but the last in the order of (mtime, path) are deleted
\* (cleanup, were it to keep the first of each group instead of the last)
cleanup_keeps_oldest(fs, eps, dry) ==
    LET uncached == [fs EXCEPT ![DistEntry] = IF dry THEN @ ELSE NoEntry]
        prefixes == {NoName, CharsOf(Name)} \cup {CharsOf(n) : n \in Range(eps)}
        listed   == {e \in DOMAIN fs : uncached[e] # NoEntry /\ e[1] # "."}
        group(p) == {e \in listed : find_prefix(prefixes, e) = p}
        before(a, b) == \/ uncached[a] < uncached[b]
                        \/ uncached[a] = uncached[b] /\ StrLess(a, b)
        cleanable == {e \in listed :
                        \E k \in group(find_prefix(prefixes, e)) : before(k, e)}
    IN  [e \in DOMAIN fs |-> IF e \in cleanable /\ ~dry THEN NoEntry ELSE uncached[e]]
cleanup(fs, eps, dry) ==
    LET uncached == [fs EXCEPT ![DistEntry] = IF dry THEN @ ELSE NoEntry]
        prefixes == {NoName, CharsOf(Name)} \cup {CharsOf(n) : n \in Range(eps)}
        listed   == {e \in DOMAIN fs : uncached[e] # NoEntry /\ e[1] # "."}
        group(p) == {e \in listed : find_prefix(prefixes, e) = p}
        before(a, b) == \/ uncached[a] < uncached[b]
                        \/ uncached[a] = uncached[b] /\ StrLess(a, b)
        cleanable == {e \in listed :
                        \E k \in group(find_prefix(prefixes, e)) : before(e, k)}
    IN  [e \in DOMAIN fs |-> IF e \in cleanable /\ ~dry THEN NoEntry ELSE uncached[e]]

CleanupFrame ==
    UNCHANGED <<ping, checked, procs, settings,
                now, configured, implementation, remote, diskCurrent, diskLatest,
                diskEntryPoints, current, latest, desired>>

\* Packager.cleanup
Cleanup ==
    /\ targets' = cleanup(targets, EntryPointsProperty(entry_points, diskEntryPoints, dryrun),
                          dryrun)
    /\ entry_points' = <<EntryPointsProperty(entry_points, diskEntryPoints, dryrun)>>
    /\ last' = [op |-> "cleanup",
                deleted |-> Cardinality({e \in FolderEntries :
                                targets[e] # NoEntry /\ targets'[e] = NoEntry})]
    /\ UNCHANGED dryrun
    /\ CleanupFrame

\* A build or an install writes an entry of the folder at time m
Produce(e, m) ==
    /\ targets[e] < m
    /\ targets' = [targets EXCEPT ![e] = m]
    /\ last' = [op |-> "produce", deleted |-> 0]
    /\ UNCHANGED <<dryrun, entry_points>>
    /\ CleanupFrame

\* A new run, dry or not, of a Packager that knows its entry points or not
NewRun(d, cached) ==
    /\ dryrun' = d
    /\ entry_points' = cached
    /\ last' = [op |-> "start", deleted |-> 0]
    /\ UNCHANGED targets
    /\ CleanupFrame

InitCleanup ==
    /\ NoOtherFiles
    /\ now = Epoch
    /\ dryrun = FALSE
    /\ configured = [value |-> None, channel |-> "stable", source |-> "defaults"]
    /\ implementation = "venv"
    /\ remote = None
    /\ diskCurrent = <<>>
    /\ diskLatest = <<>>
    /\ diskEntryPoints = <<>>
    /\ targets = [e \in FolderEntries |-> IF e = HiddenEntry THEN MaxMtime ELSE NoEntry]
    /\ current = VersionMeta(Name, "current")
    /\ latest = VersionMeta(Name, "latest")
    /\ desired = VersionMeta(Name, None)
    /\ entry_points = <<>>
    /\ last = [op |-> "start", deleted |-> 0]

NextCleanup ==
    \/ Cleanup
    \/ \E e \in FolderEntries \ {HiddenEntry}, m \in 1..MaxMtime : Produce(e, m)
    \/ \E d \in BOOLEAN, l \in EntryPointLists : NewRun(d, IF l = <<>> THEN <<>> ELSE <<l>>)

SpecCleanup == InitCleanup /\ [][NextCleanup]_vars

\* The names that group the entries, and the group of an entry: the longest of
\* the names it starts with (NoName when it starts with none)
GroupNames ==
    {CharsOf(Name)} \cup
    {CharsOf(n) : n \in Range(EntryPointsProperty(entry_points, diskEntryPoints, dryrun))}
GroupOf(e) ==
    IF \E p \in GroupNames : startswith(e, p)
    THEN CHOOSE p \in GroupNames :
            /\ startswith(e, p)
            /\ \A q \in GroupNames : startswith(e, q) => Len(q) <= Len(p)
    ELSE NoName
Delivered == {e \in FolderEntries \ {DistEntry, HiddenEntry} : targets[e] # NoEntry}

\* C19: after cleanup (not a dry run) the build cache is gone and, with the
\* entries of the install folder grouped by the longest matching prefix among
\* the package name and the entry-point names (those matching none forming one
\* more group), each non-empty group retains exactly one entry, a most recently
\* modified one, and every other entry of the group has been deleted.
C19_CleanupKeepsNewestPerGroup ==
    [][(last'.op = "cleanup" /\ ~dryrun) =>
          /\ targets'[DistEntry] = NoEntry
          /\ targets'[HiddenEntry] = targets[HiddenEntry]
          /\ \A e \in Delivered :
                LET g == {x \in Delivered : GroupOf(x) = GroupOf(e)}
                IN  \E k \in g :
                        /\ targets'[k] = targets[k]
                        /\ \A x \in g : targets[x] <= targets[k]
                        /\ \A x \in g \ {k} : targets'[x] = NoEntry]_vars

\* C19 witness: cleanup has deleted three entries and kept the newer tox-3.2.1
\* and tox-quickstart-3.2.1, both older entries and the build cache being gone.
C19_Witness ==
    /\ last.op = "cleanup"
    /\ last.deleted = 3
    /\ ~dryrun
    /\ entry_points = << <<"tox", "tox-quickstart">> >>
    /\ targets[<<"t", "o", "x", "-", "3", ".", "2", ".", "1">>] = MaxMtime
    /\ targets[<<"t", "o", "x", "-", "q", "u", "i", "c", "k", "s", "t", "a", "r", "t", "-", "3", ".", "2", ".", "1">>] = MaxMtime
    /\ targets[<<"t", "o", "x", "-", "3", ".", "2", ".", "0">>] = NoEntry
    /\ targets[<<"t", "o", "x", "-", "q", "u", "i", "c", "k", "s", "t", "a", "r", "t", "-", "3", ".", "2", ".", "0">>] = NoEntry
    /\ targets[DistEntry] = NoEntry

----------------------------------------------------------------------------
(* The check command over a batch of packages                                *)

\* Bound of the model: the number of packages one check command examines
MaxPackages == 2

\* The situations of a package: its persisted current, its configuration and
\* what the index answers for it
CheckedFiles ==
    InstalledFiles \cup
    { <<[channel |-> "stable", packager |-> "venv", source |-> "config.json",
         timestamp |-> Epoch, version |-> "3.2.1"]>> }
Situations ==
    [file : CheckedFiles, configured : Configurations, answer : Answers]

\* cli.check, the body of its loop: what one package contributes to the exit code
\* (the same, were a possible upgrade not to count)
check_package_upgrade_ok(cur, des) ==
    IF ~valid(des) THEN 1
    ELSE IF ~truthy(cur.version) \/ ~valid(cur) THEN 1
    ELSE 0
check_package(cur, des) ==
    IF ~valid(des) THEN 1
    ELSE IF ~truthy(cur.version) \/ ~valid(cur) THEN 1
    ELSE IF cur.version # des.version THEN 1
    ELSE 0

CheckFrame ==
    UNCHANGED <<ping, checked, procs, settings,
                now, dryrun, implementation, diskEntryPoints, targets, entry_points>>

\* cli.check is entered with n packages to examine: code = 0
CheckBegin(n) ==
    /\ last.op \in {"start", "exit"}
    /\ last' = [op |-> "check", code |-> 0, remaining |-> n, checked |-> 0]
    /\ UNCHANGED <<configured, remote, diskCurrent, diskLatest, current, latest, desired>>
    /\ CheckFrame

\* One iteration of the loop: a new Packager for the next package, with that
\* package's files and configuration, then refresh_current and refresh_desired
CheckPackage(pkg) ==
    /\ last.op = "check"
    /\ last.remaining > 0
    /\ LET cur == refresh_current(VersionMeta(Name, "current"), pkg.file)
           rd  == refresh_desired(VersionMeta(Name, None), VersionMeta(Name, "latest"),
                                  <<>>, pkg.configured, implementation, now, dryrun,
                                  pkg.answer)
           code == IF check_package(cur, rd.desired) = 1 THEN 1 ELSE last.code
       IN  /\ configured' = pkg.configured
           /\ remote' = pkg.answer
           /\ diskCurrent' = pkg.file
           /\ diskLatest' = rd.file
           /\ current' = cur
           /\ latest' = rd.latest
           /\ desired' = rd.desired
           /\ last' = [op |-> "check", code |-> code, remaining |-> last.remaining - 1,
                       checked |-> last.checked + 1]
    /\ CheckFrame

\* sys.exit(code), after the loop or when there is nothing to check
CheckExit ==
    /\ last.op = "check"
    /\ last.remaining = 0
    /\ last' = [last EXCEPT !.op = "exit"]
    /\ UNCHANGED <<configured, remote, diskCurrent, diskLatest, current, latest, desired>>
    /\ CheckFrame

InitCheck ==
    /\ NoOtherFiles
    /\ now = Epoch
    /\ dryrun = FALSE
    /\ configured = [value |-> None, channel |-> "stable", source |-> "defaults"]
    /\ implementation = "venv"
    /\ remote = None
    /\ diskCurrent = <<>>
    /\ diskLatest = <<>>
    /\ diskEntryPoints = <<>>
    /\ targets = [n \in EntryPointNames |-> Absent]
    /\ current = VersionMeta(Name, "current")
    /\ latest = VersionMeta(Name, "latest")
    /\ desired = VersionMeta(Name, None)
    /\ entry_points = <<>>
    /\ last = [op |-> "start", code |-> 0, remaining |-> 0, checked |-> 0]

NextCheck ==
    \/ \E n \in 0..MaxPackages : CheckBegin(n)
    \/ \E pkg \in Situations : CheckPackage(pkg)
    \/ CheckExit

SpecCheck == InitCheck /\ [][NextCheck]_vars

\* A package is up to date: desired valid, current valid, versions equal
UpToDate(cur, des) ==
    /\ des.version \notin {"", None} /\ des.problem = None
    /\ cur.version \notin {"", None} /\ cur.problem = None
    /\ cur.version = des.version

\* C20: the check command exits with 0 if and only if every checked package is
\* up to date (desired valid, current valid, versions equal) or there is nothing
\* to check; the code is 1 from the first package on that has an invalid
\* desired, is not installed or can be upgraded, and it is the code of the exit.
C20_CheckExitCode ==
    [][/\ (last.op # "check" /\ last'.op = "check") => last'.code = 0
       /\ (last.op = "check" /\ last'.op = "check") =>
             last'.code = IF last.code = 0 /\ UpToDate(current', desired') THEN 0 ELSE 1
       /\ last'.op = "exit" => last'.code = last.code]_vars

\* C20 witness: a check of two packages has exited with 1, the one examined
\* last being up to date and the one before it not.
C20_Witness ==
    /\ last.op = "exit"
    /\ last.checked = 2
    /\ last.code = 1
    /\ UpToDate(current, desired)

----------------------------------------------------------------------------
(* system.abort and its callers                                              *)

\* The pid of the process of a command
Pid == 1

\* Bound of the model: the number of steps of an operation
MaxSteps == 3

\* Return values, as the caller sees them (-1 is abort's default)
MinusOne == "-1"
Output == "output"
WouldRun == "Would run"
Sentinels == {MinusOne, None, "python"}
ExitCodes == {0, 1, 2}

\* The keyword arguments a caller may pass to abort
AbortKeys == {"code", "fatal", "return_value"}
AbortKwargs ==
    { [k \in D |-> IF k = "code" THEN c ELSE IF k = "fatal" THEN f ELSE r]
        : D \in SUBSET AbortKeys, c \in ExitCodes, f \in BOOLEAN, r \in Sentinels }

\* dict.pop(key, default)
pop(kwargs, key, default) ==
    IF key \in DOMAIN kwargs THEN kwargs[key] ELSE default

\* system.abort: [exits, code, value]
\* (the same, were 'fatal' ignored and the value always returned)
abort_never_exits(kwargs) ==
    [exits |-> FALSE, code |-> pop(kwargs, "code", 1),
     value |-> pop(kwargs, "return_value", MinusOne)]
abort(kwargs) ==
    LET code == pop(kwargs, "code", 1)
        fatal == pop(kwargs, "fatal", TRUE)
        return_value == pop(kwargs, "return_value", MinusOne)
    IN  IF fatal
        THEN [exits |-> TRUE, code |-> code, value |-> None]
        ELSE [exits |-> FALSE, code |-> code, value |-> return_value]

\* What can happen to the program run_program starts
ProgramOutcomes == {"ok", "not_installed", "exit_code", "raised"}

\* (run_program, were its dryrun to default to DRYRUN alone)
run_program_dry_whatever_fatal(fatal, dry, outcome) ==
    IF dry
    THEN [exits |-> FALSE, code |-> 0, value |-> WouldRun]
    ELSE IF outcome = "ok"
    THEN [exits |-> FALSE, code |-> 0, value |-> Output]
    ELSE abort([fatal |-> fatal, return_value |-> None])

\* system.run_program(program, fatal=fatal)
run_program(fatal, dry, outcome) ==
    IF fatal /\ dry
    THEN [exits |-> FALSE, code |-> 0, value |-> WouldRun]
    ELSE IF outcome = "ok"
    THEN [exits |-> FALSE, code |-> 0, value |-> Output]
    ELSE abort([fatal |-> fatal, return_value |-> None])

\* A process at the beginning of its operation
Started == [pc |-> 0, exited |-> FALSE, code |-> 0, received |-> None]

\* The process after a call that gave r
After(proc, r) ==
    IF r.exits
    THEN [proc EXCEPT !.exited = TRUE, !.code = r.code]
    ELSE [proc EXCEPT !.pc = proc.pc + 1, !.received = r.value]

Running(pid) ==
    /\ pid \in DOMAIN procs
    /\ ~procs[pid].exited
    /\ procs[pid].pc < MaxSteps

AbortFrame ==
    UNCHANGED <<now, configured, implementation, remote, diskCurrent, diskLatest,
                diskEntryPoints, targets, current, latest, desired, entry_points,
                ping, checked, settings>>

\* A step of the operation calls system.abort(**kwargs)
AbortCall(kwargs) ==
    /\ Running(Pid)
    /\ procs' = [procs EXCEPT ![Pid] = After(procs[Pid], abort(kwargs))]
    /\ last' = [op |-> "abort", kwargs |-> kwargs]
    /\ UNCHANGED dryrun
    /\ AbortFrame

\* A step of the operation calls system.run_program(..., fatal=fatal)
RunProgram(fatal, outcome) ==
    /\ Running(Pid)
    /\ procs' = [procs EXCEPT ![Pid] = After(procs[Pid], run_program(fatal, dryrun, outcome))]
    /\ last' = [op |-> "run_program", fatal |-> fatal, outcome |-> outcome]
    /\ UNCHANGED dryrun
    /\ AbortFrame

\* A command is started, in a new process
NewCommand(d) ==
    /\ dryrun' = d
    /\ procs' = [pid \in {Pid} |-> Started]
    /\ last' = [op |-> "start"]
    /\ AbortFrame

InitAbort ==
    /\ now = Epoch
    /\ dryrun = FALSE
    /\ configured = [value |-> None, channel |-> "stable", source |-> "defaults"]
    /\ implementation = "venv"
    /\ remote = None
    /\ diskCurrent = <<>>
    /\ diskLatest = <<>>
    /\ diskEntryPoints = <<>>
    /\ targets = [n \in EntryPointNames |-> Absent]
    /\ current = VersionMeta(Name, "current")
    /\ latest = VersionMeta(Name, "latest")
    /\ desired = VersionMeta(Name, None)
    /\ entry_points = <<>>
    /\ ping = <<>>
    /\ checked = <<>>
    /\ settings = <<>>
    /\ procs = [pid \in {Pid} |-> Started]
    /\ last = [op |-> "start"]

NextAbort ==
    \/ \E kwargs \in AbortKwargs : AbortCall(kwargs)
    \/ \E fatal \in BOOLEAN, outcome \in ProgramOutcomes : RunProgram(fatal, outcome)
    \/ \E d \in BOOLEAN : NewCommand(d)

SpecAbort == InitAbort /\ [][NextAbort]_vars

----------------------------------------------------------------------------
(* Claims about aborting                                                     *)

\* What the caller of the last step asked for
AskedFatal ==
    IF last'.op = "abort"
    THEN "fatal" \notin DOMAIN last'.kwargs \/ last'.kwargs["fatal"]
    ELSE last'.fatal
AskedCode ==
    IF last'.op = "abort" /\ "code" \in DOMAIN last'.kwargs
    THEN last'.kwargs["code"] ELSE 1
AskedSentinel ==
    IF last'.op = "run_program" THEN None
    ELSE IF "return_value" \in DOMAIN last'.kwargs
    THEN last'.kwargs["return_value"] ELSE MinusOne
Aborting ==
    \/ last'.op = "abort"
    \/ /\ last'.op = "run_program"
       /\ last'.outcome # "ok"
       /\ ~(last'.fatal /\ dryrun)

\* C21: an abort in fatal mode (the default) terminates the process with the
\* given exit code (default 1) and no later step of the operation runs; an abort
\* in non-fatal mode does not terminate it: the caller receives the sentinel
\* (default -1, None for a failed subprocess in run_program) and continues.
C21_AbortExitsOrReturnsSentinel ==
    [][/\ (Aborting /\ AskedFatal) =>
             /\ procs'[Pid].exited
             /\ procs'[Pid].code = AskedCode
             /\ procs'[Pid].pc = procs[Pid].pc
       /\ (Aborting /\ ~AskedFatal) =>
             /\ ~procs'[Pid].exited
             /\ procs'[Pid].received = AskedSentinel
             /\ procs'[Pid].pc = procs[Pid].pc + 1
       /\ (procs[Pid].exited /\ last'.op # "start") => procs' = procs]_vars

\* C21 witness: the process has exited with code 2 at its second step, after a
\* non-fatal abort at its first step gave it the default sentinel.
C21_Witness ==
    /\ last.op = "abort"
    /\ procs[Pid].exited
    /\ procs[Pid].code = 2
    /\ procs[Pid].pc = 1
    /\ procs[Pid].received = MinusOne

----------------------------------------------------------------------------
(* PingLock: the lock file of a package                                      *)

\* SETTINGS.version_check_delay, in seconds
version_check_delay == 24 * 60 * 60
HalfDelay == version_check_delay \div 2

\* Bound of the model: how many delays the clock may advance
MaxDelays == 2
MaxPingTime == Epoch + MaxDelays * version_check_delay

\* The pids of the processes, and the pid of a file that records none
Pids == {1, 2}
NoPid == 0

\* system.file_younger(path, age): file is <<>> when the path does not exist
\* (the same, were a missing file young)
file_younger_or_missing(file, age, t) ==
    file = <<>> \/ t - file[1].mtime < age
file_younger(file, age, t) ==
    IF file = <<>> THEN FALSE ELSE t - file[1].mtime < age

\* system.check_pid(pid): alive is the set of the pids of live processes
check_pid(pid, alive) ==
    pid # NoPid /\ pid \in alive

\* PingLock.is_young()
\* (the same, were the lock young for half the delay only)
PingLock_is_young_half(file, t) ==
    file_younger(file, HalfDelay, t)
PingLock_is_young(file, t) ==
    file_younger(file, version_check_delay, t)

\* PingLock.touch(): writes the pid of the process, through write_contents
PingLock_touch_nothing(file, pid, t, dry) ==
    file
PingLock_touch(file, pid, t, dry) ==
    IF dry THEN file ELSE <<[mtime |-> t, pid |-> pid]>>

\* The lock is held: its file records the pid of another live process
\* (the same, were the lock never taken to be held)
PingLock_held_never(file, pid, alive) ==
    FALSE
PingLock_held(file, pid, alive) ==
    /\ file # <<>>
    /\ file[1].pid # pid
    /\ check_pid(file[1].pid, alive)

\* Acquiring the lock: PingLockException when it is held, touch otherwise
PingLock_acquire(file, pid, t, dry, alive) ==
    IF PingLock_held(file, pid, alive)
    THEN [raised |-> TRUE, file |-> file]
    ELSE [raised |-> FALSE, file |-> PingLock_touch(file, pid, t, dry)]

\* A process of a command, and the live ones
Process(d) == [pc |-> "start", exited |-> FALSE, code |-> 0, dryrun |-> d]
Alive == { pid \in DOMAIN procs : ~procs[pid].exited }

PingFrame ==
    UNCHANGED <<dryrun, configured, implementation, remote, diskCurrent, diskLatest,
                diskEntryPoints, targets, current, latest, desired, entry_points,
                checked, settings>>

\* A command starts, in a process that gets a pid no live process has
PingStart(pid, d) ==
    /\ pid \notin Alive
    /\ procs' = [p \in DOMAIN procs \cup {pid} |-> IF p = pid THEN Process(d) ELSE procs[p]]
    /\ last' = [op |-> "start", pid |-> pid]
    /\ UNCHANGED <<now, ping>>
    /\ PingFrame

\* A process ends
PingExit(pid) ==
    /\ pid \in Alive
    /\ procs' = [procs EXCEPT ![pid].exited = TRUE]
    /\ last' = [op |-> "exit", pid |-> pid]
    /\ UNCHANGED <<now, ping>>
    /\ PingFrame

PingTouch(pid) ==
    /\ pid \in Alive
    /\ ping' = PingLock_touch(ping, pid, now, procs[pid].dryrun)
    /\ last' = [op |-> "touch", pid |-> pid]
    /\ UNCHANGED <<now, procs>>
    /\ PingFrame

PingIsYoung(pid) ==
    /\ pid \in Alive
    /\ last' = [op |-> "is_young", pid |-> pid, result |-> PingLock_is_young(ping, now)]
    /\ UNCHANGED <<now, procs, ping>>
    /\ PingFrame

PingAcquire(pid) ==
    /\ pid \in Alive
    /\ LET r == PingLock_acquire(ping, pid, now, procs[pid].dryrun, Alive)
       IN  /\ ping' = r.file
           /\ last' = [op |-> "acquire", pid |-> pid, raised |-> r.raised]
    /\ UNCHANGED <<now, procs>>
    /\ PingFrame

\* Time passes
PingTick ==
    /\ now + HalfDelay <= MaxPingTime
    /\ now' = now + HalfDelay
    /\ last' = [op |-> "tick", pid |-> NoPid]
    /\ UNCHANGED <<procs, ping>>
    /\ PingFrame

InitPing ==
    /\ now = Epoch
    /\ dryrun = FALSE
    /\ configured = [value |-> None, channel |-> "stable", source |-> "defaults"]
    /\ implementation = "venv"
    /\ remote = None
    /\ diskCurrent = <<>>
    /\ diskLatest = <<>>
    /\ diskEntryPoints = <<>>
    /\ targets = [n \in EntryPointNames |-> Absent]
    /\ current = VersionMeta(Name, "current")
    /\ latest = VersionMeta(Name, "latest")
    /\ desired = VersionMeta(Name, None)
    /\ entry_points = <<>>
    /\ checked = <<>>
    /\ settings = <<>>
    /\ ping \in {<<>>, <<[mtime |-> Epoch, pid |-> NoPid]>>}
    /\ procs = <<>>
    /\ last = [op |-> "start", pid |-> NoPid]

NextPing ==
    \/ \E pid \in Pids, d \in BOOLEAN : PingStart(pid, d)
    \/ \E pid \in Pids : PingExit(pid)
    \/ \E pid \in Pids : PingTouch(pid)
    \/ \E pid \in Pids : PingIsYoung(pid)
    \/ \E pid \in Pids : PingAcquire(pid)
    \/ PingTick

SpecPing == InitPing /\ [][NextPing]_vars

----------------------------------------------------------------------------
(* Claims about the ping lock                                                *)

\* The last step was a touch, and this one asks the same lock whether it is young
JustTouched ==
    /\ last.op = "touch"
    /\ last'.op = "is_young"

\* The lock is abandoned: its file is there, is not young, and records no pid
\* or the pid of no live process
Abandoned ==
    /\ ping # <<>>
    /\ now - ping[1].mtime >= version_check_delay
    /\ (ping[1].pid = NoPid \/ ping[1].pid \notin Alive)

\* C22, as stated: a ping lock that was just touched is young.
C22_Original ==
    [][JustTouched => last'.result]_vars

\* C22: a ping lock that was just touched by a process that is not in a dry run
\* is young; once version_check_delay has elapsed since the file was last
\* written it is not young; a lock whose file does not exist is not young; and a
\* lock that is not young and records no pid, or the pid of no live process, is
\* acquired by whoever asks.
C22_YoungStaleAbandoned ==
    [][/\ (JustTouched /\ ~procs[last.pid].dryrun) => last'.result
       /\ (last'.op = "is_young" /\ ping # <<>>
             /\ now - ping[1].mtime >= version_check_delay) => ~last'.result
       /\ (last'.op = "is_young" /\ ping = <<>>) => ~last'.result
       /\ (last'.op = "acquire" /\ Abandoned) => ~last'.raised]_vars

\* C22 witness: a process has acquired a lock that was abandoned, a full delay
\* after the process that had touched it ended.
C22_Witness ==
    /\ last.op = "acquire"
    /\ ~last.raised
    /\ ping = <<[mtime |-> now, pid |-> last.pid]>>
    /\ now >= Epoch + version_check_delay
    /\ \E pid \in DOMAIN procs : pid # last.pid /\ procs[pid].exited

----------------------------------------------------------------------------
(* auto-upgrade and bootstrap: the commands that install under the ping lock *)

\* What get_entry_points finds in the venv of a release of the package
Found == <<"tox", "tox-quickstart">>

\* The package as installed before the commands run: version 3.2.0, by 'packager'
InstalledBy(packager) ==
    <<[channel |-> "latest", packager |-> packager, source |-> Index,
       timestamp |-> Epoch, version |-> "3.2.0"]>>

\* The process of one invocation: its Packager (current, latest, desired,
\* _entry_points), the entry point being delivered, its place in the command
Invocation(kind, d) ==
    [ kind |-> kind, pc |-> "start", exited |-> FALSE, code |-> 0, dryrun |-> d,
      outcome |-> "running",
      current |-> VersionMeta(Name, "current"),
      latest |-> VersionMeta(Name, "latest"),
      desired |-> VersionMeta(Name, None),
      eps |-> <<>>, next |-> 1, lookups |-> 0 ]

\* sys.exit(code), or the end of the command
Exit(proc, code, outcome) ==
    [proc EXCEPT !.pc = "done", !.exited = TRUE, !.code = code, !.outcome = outcome]

At(pid, pc) ==
    /\ pid \in Alive
    /\ procs[pid].pc = pc

\* The last step, and when the install step was last reached (0: never) by any
\* invocation and by one that was not a dry run
Step(op, pid) == [last EXCEPT !.op = op, !.pid = pid]

AutoFrame ==
    UNCHANGED <<dryrun, configured, implementation, remote, current, latest, desired,
                entry_points, checked, settings>>

\* The command starts (exclusive: when no other invocation is under way)
AutoStart(pid, kind, d, exclusive) ==
    /\ pid \notin Alive
    /\ exclusive => Alive = {}
    /\ procs' = [p \in DOMAIN procs \cup {pid} |->
                    IF p = pid THEN Invocation(kind, d) ELSE procs[p]]
    /\ last' = Step("start", pid)
    /\ UNCHANGED <<now, ping, diskCurrent, diskLatest, diskEntryPoints, targets>>
    /\ AutoFrame

\* auto_upgrade: p.refresh_current(); abort when current is not valid.
\* bootstrap: p.refresh_current(); return when pickley is packaged as it should
AutoRefreshCurrent(pid) ==
    /\ At(pid, "start")
    /\ LET cur == refresh_current(procs[pid].current, diskCurrent)
           proc == [procs[pid] EXCEPT !.current = cur]
       IN  procs' = [procs EXCEPT ![pid] =
              IF proc.kind = "bootstrap"
              THEN IF cur.packager = implementation
                   THEN [proc EXCEPT !.pc = "returned", !.outcome = "no_bootstrap"]
                   ELSE [proc EXCEPT !.pc = "acquire"]
              ELSE IF ~valid(cur)
                   THEN Exit(proc, 1, "not_installed")
                   ELSE [proc EXCEPT !.pc = "is_young"]]
    /\ last' = Step("refresh_current", pid)
    /\ UNCHANGED <<now, ping, diskCurrent, diskLatest, diskEntryPoints, targets>>
    /\ AutoFrame

\* auto_upgrade: if ping.is_young(): sys.exit(0)
AutoIsYoung(pid) ==
    /\ At(pid, "is_young")
    /\ procs' = [procs EXCEPT ![pid] =
                    IF PingLock_is_young(ping, now)
                    THEN Exit(procs[pid], 0, "skipped")
                    ELSE [procs[pid] EXCEPT !.pc = "touch"]]
    /\ last' = Step("is_young", pid)
    /\ UNCHANGED <<now, ping, diskCurrent, diskLatest, diskEntryPoints, targets>>
    /\ AutoFrame

\* auto_upgrade: ping.touch()
AutoTouch(pid) ==
    /\ At(pid, "touch")
    /\ ping' = PingLock_touch(ping, pid, now, procs[pid].dryrun)
    /\ procs' = [procs EXCEPT ![pid].pc = "acquire"]
    /\ last' = Step("touch", pid)
    /\ UNCHANGED <<now, diskCurrent, diskLatest, diskEntryPoints, targets>>
    /\ AutoFrame

\* p.internal_install(): the lock is acquired, or PingLockException is raised
\* and caught by the command (auto_upgrade: sys.exit(0); bootstrap: return)
AutoAcquire(pid) ==
    /\ At(pid, "acquire")
    /\ LET proc == procs[pid]
           r == PingLock_acquire(ping, pid, now, proc.dryrun, Alive)
       IN  /\ ping' = r.file
           /\ procs' = [procs EXCEPT ![pid] =
                 IF r.raised
                 THEN IF proc.kind = "bootstrap"
                      THEN [proc EXCEPT !.pc = "returned", !.outcome = "contention"]
                      ELSE Exit(proc, 0, "contention")
                 ELSE [proc EXCEPT !.pc = IF proc.kind = "bootstrap"
                                          THEN "build" ELSE "refresh"]]
           /\ last' = IF r.raised
                      THEN Step("contention", pid)
                      ELSE [Step("acquire", pid) EXCEPT
                              !.reached = now,
                              !.reachedWet = IF proc.dryrun THEN last.reachedWet ELSE now]
    /\ UNCHANGED <<now, diskCurrent, diskLatest, diskEntryPoints, targets>>
    /\ AutoFrame

\* Packager.install, not bootstrap: refresh_current, refresh_desired, abort when
\* desired is not valid, return when current is equivalent to desired
AutoRefresh(pid) ==
    /\ At(pid, "refresh")
    /\ LET proc == procs[pid]
           cur == refresh_current(proc.current, diskCurrent)
           rd == refresh_desired(proc.desired, proc.latest, diskLatest, configured,
                                 implementation, now, proc.dryrun, remote)
           refreshed == [proc EXCEPT !.current = cur, !.desired = rd.desired,
                                     !.latest = rd.latest,
                                     !.lookups = proc.lookups + rd.lookups]
       IN  /\ diskLatest' = rd.file
           /\ procs' = [procs EXCEPT ![pid] =
                 IF ~valid(rd.desired) THEN Exit(refreshed, 1, "abort_desired")
                 ELSE IF equivalent(cur, rd.desired)
                 THEN Exit(refreshed, 0, "already_installed")
                 ELSE [refreshed EXCEPT !.pc = "build"]]
    /\ last' = Step("refresh", pid)
    /\ UNCHANGED <<now, ping, diskCurrent, diskEntryPoints, targets>>
    /\ AutoFrame

\* VenvPackager.effective_install: virtualenv, then pip install name==version
AutoBuild(pid) ==
    /\ At(pid, "build")
    /\ procs' = [procs EXCEPT ![pid] =
                    IF procs[pid].dryrun \/ Buildable(procs[pid].desired.version)
                    THEN [procs[pid] EXCEPT !.pc = "entry_points"]
                    ELSE Exit(procs[pid], 1, "abort_build")]
    /\ last' = Step("build", pid)
    /\ UNCHANGED <<now, ping, diskCurrent, diskLatest, diskEntryPoints, targets>>
    /\ AutoFrame

\* VenvPackager.effective_install: self.refresh_entry_points(install_folder, version)
AutoEntryPoints(pid) ==
    /\ At(pid, "entry_points")
    /\ LET proc == procs[pid]
           rep == refresh_entry_points(proc.eps, diskEntryPoints, proc.dryrun, Found)
           eps == EntryPointsProperty(rep.mem, rep.file, proc.dryrun)
       IN  /\ diskEntryPoints' = rep.file
           /\ procs' = [procs EXCEPT ![pid] =
                 IF rep.abort THEN Exit(proc, 1, "abort_not_cli")
                 ELSE [proc EXCEPT !.eps = <<eps>>, !.next = 1,
                                   !.pc = IF eps = <<>> THEN "save" ELSE "delete"]]
    /\ last' = Step("entry_points", pid)
    /\ UNCHANGED <<now, ping, diskCurrent, diskLatest, targets>>
    /\ AutoFrame

\* perform_delivery, for the next entry point: uninstall_existing when there is
\* no current file, then DeliveryMethod.install: system.delete_file(target)
AutoDeliverDelete(pid) ==
    /\ At(pid, "delete")
    /\ LET proc == procs[pid]
           n == proc.eps[1][proc.next]
           cleared == IF Name # "pickley" /\ ~file_exists(proc.current, diskCurrent)
                      THEN uninstall_existing(targets[n], proc.dryrun) ELSE targets[n]
       IN  /\ targets' = [targets EXCEPT ![n] = delete_file(cleared, proc.dryrun)]
           /\ procs' = [procs EXCEPT ![pid].pc = "create"]
    /\ last' = Step("delete", pid)
    /\ UNCHANGED <<now, ping, diskCurrent, diskLatest, diskEntryPoints>>
    /\ AutoFrame

\* DeliveryMethod.install, after the delete: nothing in a dry run; else
\* DeliverySymlink._install, whose os.symlink raises when the target is there
\* again (the exception is caught and logged)
AutoDeliverCreate(pid) ==
    /\ At(pid, "create")
    /\ LET proc == procs[pid]
           n == proc.eps[1][proc.next]
           more == proc.next < Len(proc.eps[1])
       IN  /\ targets' = IF proc.dryrun \/ targets[n] # Absent THEN targets
                         ELSE [targets EXCEPT ![n] = proc.desired.version]
           /\ procs' = [procs EXCEPT ![pid] =
                 [proc EXCEPT !.next = proc.next + 1,
                              !.pc = IF more THEN "delete" ELSE "save"]]
    /\ last' = Step("create", pid)
    /\ UNCHANGED <<now, ping, diskCurrent, diskLatest, diskEntryPoints>>
    /\ AutoFrame

\* Packager.install: self.current.set(self.desired); self.current.save(); then
\* the command ends (bootstrap: relaunch, sys.exit(0))
AutoSave(pid) ==
    /\ At(pid, "save")
    /\ LET proc == procs[pid]
           cur == set(proc.current, proc.desired)
       IN  /\ diskCurrent' = save(cur, diskCurrent, proc.dryrun)
           /\ procs' = [procs EXCEPT ![pid] = Exit([proc EXCEPT !.current = cur], 0, "installed")]
    /\ last' = Step("save", pid)
    /\ UNCHANGED <<now, ping, diskLatest, diskEntryPoints, targets>>
    /\ AutoFrame

\* bootstrap has returned without installing: the command goes on and ends
AutoReturn(pid) ==
    /\ At(pid, "returned")
    /\ procs' = [procs EXCEPT ![pid] = Exit(procs[pid], 0, procs[pid].outcome)]
    /\ last' = Step("return", pid)
    /\ UNCHANGED <<now, ping, diskCurrent, diskLatest, diskEntryPoints, targets>>
    /\ AutoFrame

\* Time passes
AutoTick ==
    /\ now + HalfDelay <= MaxPingTime
    /\ now' = now + HalfDelay
    /\ last' = Step("tick", NoPid)
    /\ UNCHANGED <<procs, ping, diskCurrent, diskLatest, diskEntryPoints, targets>>
    /\ AutoFrame

\* The package is installed in version 3.2.0, the index holds 3.2.1 and the
\* package follows the latest channel
InitAuto(packagers, locks) ==
    /\ now = Epoch + version_check_delay
    /\ dryrun = FALSE
    /\ configured = [value |-> None, channel |-> "latest", source |-> "defaults"]
    /\ implementation = "venv"
    /\ remote = "3.2.1"
    /\ \E packager \in packagers : diskCurrent = InstalledBy(packager)
    /\ diskLatest = <<>>
    /\ diskEntryPoints = <<Found>>
    /\ targets = [n \in EntryPointNames |-> "3.2.0"]
    /\ current = VersionMeta(Name, "current")
    /\ latest = VersionMeta(Name, "latest")
    /\ desired = VersionMeta(Name, None)
    /\ entry_points = <<>>
    /\ checked = <<>>
    /\ settings = <<>>
    /\ ping \in locks
    /\ procs = <<>>
    /\ last = [op |-> "init", pid |-> NoPid, reached |-> 0, reachedWet |-> 0]

\* The steps of an invocation that is under way
AutoStep(pid) ==
    \/ AutoRefreshCurrent(pid)
    \/ AutoIsYoung(pid)
    \/ AutoTouch(pid)
    \/ AutoAcquire(pid)
    \/ AutoRefresh(pid)
    \/ AutoBuild(pid)
    \/ AutoEntryPoints(pid)
    \/ AutoDeliverDelete(pid)
    \/ AutoDeliverCreate(pid)
    \/ AutoSave(pid)

\* auto-upgrade invocations that do not overlap, some of them dry runs, as time passes
InitThrottle ==
    InitAuto({"venv"}, {<<>>, <<[mtime |-> Epoch, pid |-> NoPid]>>})

NextThrottle ==
    \/ \E pid \in Pids, d \in BOOLEAN : AutoStart(pid, "auto-upgrade", d, TRUE)
    \/ \E pid \in Pids : AutoStep(pid)
    \/ AutoTick

SpecThrottle == InitThrottle /\ [][NextThrottle]_vars

\* Two invocations, auto-upgrade or bootstrap, that interleave in any way
InitRace ==
    InitAuto({"venv", "pex"}, {<<>>, <<[mtime |-> Epoch, pid |-> NoPid]>>})

NextRace ==
    \/ \E pid \in Pids, kind \in {"auto-upgrade", "bootstrap"} : AutoStart(pid, kind, FALSE, FALSE)
    \/ \E pid \in Pids : AutoStep(pid)
    \/ \E pid \in Pids : AutoReturn(pid)

SpecRace == InitRace /\ [][NextRace]_vars

----------------------------------------------------------------------------
(* Claims about auto-upgrade                                                 *)

\* The files of the package, and the entry points delivered
Persistent == <<diskCurrent, diskLatest, diskEntryPoints, targets>>

\* This step is the is_young test of an invocation, less than
\* version_check_delay after the lock file was last written
ChecksYoungLock ==
    /\ last'.op = "is_young"
    /\ ping # <<>>
    /\ now - ping[1].mtime < version_check_delay

\* Such an invocation refreshes no desired, looks nothing up, installs nothing
\* and exits with code 0
SkipsQuietly(pid) ==
    /\ procs'[pid].exited
    /\ procs'[pid].code = 0
    /\ procs'[pid].lookups = 0
    /\ procs'[pid].desired = VersionMeta(Name, None)
    /\ UNCHANGED <<Persistent, ping>>

\* C23, as stated: an invocation within version_check_delay of the last touch
\* exits with 0 and does nothing, and any two invocations that reach the install
\* step are at least version_check_delay apart.
C23_Original ==
    [][/\ ChecksYoungLock => SkipsQuietly(last'.pid)
       /\ (last'.op = "acquire" /\ last.reached # 0) =>
             now - last.reached >= version_check_delay]_vars

\* C23: in a sequence of auto-upgrade invocations that do not overlap, an
\* invocation that tests the lock less than version_check_delay after it was
\* last touched performs no refresh_desired, no remote lookup and no install and
\* exits with code 0; two invocations that are not dry runs and reach the
\* install step are at least version_check_delay apart.
C23_AutoUpgradeIsRateLimited ==
    [][/\ ChecksYoungLock => SkipsQuietly(last'.pid)
       /\ (last'.op = "acquire" /\ ~procs[last'.pid].dryrun /\ last.reachedWet # 0) =>
             now - last.reachedWet >= version_check_delay]_vars

\* C23 witness: an invocation has been skipped half a delay after an earlier one
\* reached the install step and installed 3.2.1.
C23_Witness ==
    /\ last.op = "is_young"
    /\ procs[last.pid].outcome = "skipped"
    /\ last.reachedWet # 0
    /\ now = last.reachedWet + HalfDelay
    /\ diskCurrent # <<>> /\ diskCurrent[1].version = "3.2.1"

\* The lock is held by another live process than pid
HeldByAnother(pid) ==
    /\ ping # <<>>
    /\ ping[1].pid # pid
    /\ ping[1].pid \in Alive

\* This step is the acquisition of the lock by the install of process pid
TriesToAcquire(pid) ==
    /\ pid \in Alive
    /\ procs[pid].pc = "acquire"
    /\ last'.pid = pid
    /\ last'.op \in {"acquire", "contention"}

\* C24: when the install started by auto-upgrade or by bootstrap finds the lock
\* held by another live process, no file of the package and no delivered entry
\* point changes, nothing is installed, auto-upgrade exits with code 0 and
\* bootstrap returns to its caller.
C24_ContentionSkipsTheInstall ==
    [][\A pid \in Pids :
         (TriesToAcquire(pid) /\ HeldByAnother(pid)) =>
            /\ UNCHANGED <<Persistent, ping>>
            /\ procs'[pid].outcome = "contention"
            /\ procs'[pid].lookups = 0
            /\ IF procs[pid].kind = "auto-upgrade"
               THEN procs'[pid].exited /\ procs'[pid].code = 0
               ELSE ~procs'[pid].exited /\ procs'[pid].pc = "returned"]_vars

\* C24 witness: an auto-upgrade has exited with 0 on finding the lock held by
\* the other process, which is still under way.
C24_Witness ==
    /\ last.op = "contention"
    /\ procs[last.pid].kind = "auto-upgrade"
    /\ procs[last.pid].exited
    /\ procs[last.pid].code = 0
    /\ ping # <<>> /\ ping[1].pid # last.pid /\ ping[1].pid \in Alive

\* Both processes ran auto-upgrade, found the lock not young, and have terminated
BothWentOn ==
    \A pid \in Pids :
        /\ pid \in DOMAIN procs
        /\ procs[pid].kind = "auto-upgrade"
        /\ procs[pid].exited
        /\ procs[pid].outcome \notin {"skipped", "not_installed"}

\* The package is installed in the desired version, as one install leaves it
InstalledAsDesired ==
    /\ diskCurrent # <<>>
    /\ diskCurrent[1].version = remote
    /\ diskCurrent[1].packager = implementation
    /\ diskEntryPoints = <<Found>>
    /\ \A n \in Range(Found) : targets[n] = remote

\* C25: two auto-upgrade processes of the same package may interleave in any
\* way, both passing is_young before either touches the lock; once both have
\* terminated, the persisted current is the desired version and every entry
\* point is delivered in that version, exactly as after a single install.
C25_RaceIsADuplicateNotACorruption ==
    BothWentOn => InstalledAsDesired

\* C25 witness: both processes have installed (a duplicate install), and the
\* package is installed as desired.
C25_Witness ==
    /\ \A pid \in Pids : pid \in DOMAIN procs /\ procs[pid].kind = "auto-upgrade"
                                              /\ procs[pid].outcome = "installed"
    /\ InstalledAsDesired

----------------------------------------------------------------------------
(* Settings: the chain of configuration sources and its resolution           *)

\* The key resolved (delivery), the values given to it, the package that
\* select.<package>.<key> names and a package that no source names
Deliveries == {"wrap", "symlink"}
Setting == Deliveries \cup {None}
Selected == "virtualenv"
Packages == {Selected, "tox"}

\* The contents of a source: the global key and select.<Selected>.<key>
Contents == [global : Setting, select : Setting]
Empty == [global |-> None, select |-> None]

\* The configuration files: the one the program loads, one it may include, and
\* one that never exists
ConfigJson == "config.json"
CustomJson == "custom.json"
MissingJson == "non-existent-config-file.json"
ConfigFiles == {ConfigJson, CustomJson, MissingJson}

\* The config folder: per file, <<>> when it does not exist, else its contents
\* and its include list
Folders ==
    { [f \in ConfigFiles |->
         IF f = ConfigJson THEN <<[contents |-> c1, include |-> i1]>>
         ELSE IF f = CustomJson THEN c2
         ELSE <<>>]
      : c1 \in Contents,
        i1 \in {<<>>, <<CustomJson>>, <<MissingJson>>, <<MissingJson, CustomJson>>},
        c2 \in {<<>>} \cup { <<[contents |-> c, include |-> i]>>
                               : c \in Contents, i \in {<<>>, <<MissingJson>>} } }

\* Bound of the model: how deep includes are followed
MaxInclude == 2

\* Settings.load_config: the file, then the files it includes, each followed by
\* its own includes; a file that does not exist is an empty source
\* (the same, were a file that does not exist left out of the chain)
RECURSIVE flatten_skip_missing(_, _, _)
flatten_skip_missing(folder, path, depth) ==
    LET RECURSIVE all(_)
        all(paths) ==
            IF paths = <<>> THEN <<>>
            ELSE flatten_skip_missing(folder, Head(paths), depth - 1) \o all(Tail(paths))
    IN  IF folder[path] = <<>> THEN <<>>
        ELSE <<[origin |-> path, contents |-> folder[path][1].contents]>>
             \o (IF depth = 0 THEN <<>> ELSE all(folder[path][1].include))
RECURSIVE flatten(_, _, _)
flatten(folder, path, depth) ==
    LET RECURSIVE all(_)
        all(paths) ==
            IF paths = <<>> THEN <<>>
            ELSE flatten(folder, Head(paths), depth - 1) \o all(Tail(paths))
    IN  IF folder[path] = <<>> THEN <<[origin |-> path, contents |-> Empty]>>
        ELSE <<[origin |-> path, contents |-> folder[path][1].contents]>>
             \o (IF depth = 0 THEN <<>> ELSE all(folder[path][1].include))

\* The sources in precedence order: cli, the files, the defaults
Sources(st) ==
    <<[origin |-> "cli", contents |-> st.cli]>> \o st.chain
    \o <<[origin |-> "defaults", contents |-> st.defaults]>>

\* What one source defines for the key and the package: the per-package
\* override when it has one, else the global key
\* (the same, were the global key looked at first)
Defined_global_first(source, package_name) ==
    IF source.contents.global # None THEN source.contents.global
    ELSE IF package_name = Selected THEN source.contents.select
    ELSE None
Defined(source, package_name) ==
    IF package_name = Selected /\ source.contents.select # None
    THEN source.contents.select
    ELSE source.contents.global

NoDefinition == [value |-> None, source |-> None]

\* Settings.resolved_definition(key, package_name): the first definition, in
\* precedence order, whose value is not None
\* (the same, were the sources scanned from the defaults up)
resolve_lowest_first(st, package_name) ==
    LET sources == Sources(st)
        defining == { i \in DOMAIN sources : Defined(sources[i], package_name) # None }
        first == CHOOSE i \in defining : \A j \in defining : i >= j
    IN  IF defining = {} THEN NoDefinition
        ELSE [value |-> Defined(sources[first], package_name),
              source |-> sources[first].origin]
resolve(st, package_name) ==
    LET sources == Sources(st)
        defining == { i \in DOMAIN sources : Defined(sources[i], package_name) # None }
        first == CHOOSE i \in defining : \A j \in defining : i <= j
    IN  IF defining = {} THEN NoDefinition
        ELSE [value |-> Defined(sources[first], package_name),
              source |-> sources[first].origin]

SettingsFrame ==
    UNCHANGED <<now, dryrun, configured, implementation, remote, diskCurrent, diskLatest,
                diskEntryPoints, targets, current, latest, desired, entry_points,
                ping, checked, procs>>

\* s = Settings(base); s.load_config(), on the config folder of the base
LoadConfig ==
    /\ last.op = "start"
    /\ settings' = [settings EXCEPT !.chain = flatten(last.folder, ConfigJson, MaxInclude)]
    /\ last' = [op |-> "load_config", folder |-> last.folder]
    /\ SettingsFrame

\* The command line sets the key (s.cli.contents[key] = value), or does not
SetCli(value) ==
    /\ last.op # "start"
    /\ settings' = [settings EXCEPT !.cli = [global |-> value, select |-> None]]
    /\ last' = [op |-> "cli", folder |-> last.folder]
    /\ SettingsFrame

\* s.resolved_definition(key, package_name=package_name)
Resolve(package_name) ==
    /\ last.op # "start"
    /\ last' = [op |-> "resolve", folder |-> last.folder, package_name |-> package_name,
                definition |-> resolve(settings, package_name)]
    /\ UNCHANGED settings
    /\ SettingsFrame

\* The program starts on some config folder, with or without a built-in default
InitSettings ==
    /\ now = Epoch
    /\ dryrun = FALSE
    /\ configured = [value |-> None, channel |-> "stable", source |-> "defaults"]
    /\ implementation = "venv"
    /\ remote = None
    /\ diskCurrent = <<>>
    /\ diskLatest = <<>>
    /\ diskEntryPoints = <<>>
    /\ targets = [n \in EntryPointNames |-> Absent]
    /\ current = VersionMeta(Name, "current")
    /\ latest = VersionMeta(Name, "latest")
    /\ desired = VersionMeta(Name, None)
    /\ entry_points = <<>>
    /\ ping = <<>>
    /\ checked = <<>>
    /\ procs = <<>>
    /\ \E d \in {None, "copy"} :
          settings = [cli |-> Empty, chain |-> <<>>,
                      defaults |-> [global |-> d, select |-> None]]
    /\ \E folder \in Folders : last = [op |-> "start", folder |-> folder]

NextSettings ==
    \/ LoadConfig
    \/ \E value \in Setting : SetCli(value)
    \/ \E package_name \in Packages \cup {None} : Resolve(package_name)

SpecSettings == InitSettings /\ [][NextSettings]_vars

----------------------------------------------------------------------------
(* Claims about the settings                                                 *)

\* The sources that define the global key, and those that define the override
WithGlobal == { i \in DOMAIN Sources(settings) : Sources(settings)[i].contents.global # None }
WithSelect == { i \in DOMAIN Sources(settings) : Sources(settings)[i].contents.select # None }
Highest(indices) == CHOOSE i \in indices : \A j \in indices : i <= j

\* The definition the source at index i gives with its global key, with its override
GlobalOf(i) ==
    [value |-> Sources(settings)[i].contents.global, source |-> Sources(settings)[i].origin]
SelectOf(i) ==
    [value |-> Sources(settings)[i].contents.select, source |-> Sources(settings)[i].origin]

Resolved == last.op = "resolve"

\* C26: the sources are scanned in the order cli, config file, included files,
\* defaults; resolve returns the value and the origin of the first of them that
\* defines the key, so a key set in the cli source always wins.
C26_HighestPrecedenceSourceWins ==
    Resolved =>
      /\ Sources(settings)[1].origin = "cli"
      /\ Sources(settings)[2].origin = ConfigJson
      /\ Sources(settings)[Len(Sources(settings))].origin = "defaults"
      /\ settings.cli.global # None =>
            last.definition = [value |-> settings.cli.global, source |-> "cli"]
      /\ (last.package_name # Selected /\ WithGlobal # {}) =>
            last.definition = GlobalOf(Highest(WithGlobal))
      /\ (last.package_name # Selected /\ WithGlobal = {}) =>
            last.definition = NoDefinition
      /\ (last.package_name = Selected /\ WithGlobal \cup WithSelect # {}) =>
            last.definition.source = Sources(settings)[Highest(WithGlobal \cup WithSelect)].origin

\* C26 witness: the key has three different values, in the cli source, in the
\* config file and in the defaults, and is set in an included file as well; the
\* definition resolved is the one of the cli.
C26_Witness ==
    /\ Resolved
    /\ last.package_name = None
    /\ settings.cli.global = "wrap"
    /\ Len(settings.chain) >= 2
    /\ settings.chain[1].contents.global = "symlink"
    /\ settings.chain[2].origin = CustomJson
    /\ settings.chain[2].contents.global # None
    /\ settings.defaults.global = "copy"
    /\ last.definition = [value |-> "wrap", source |-> "cli"]

\* C27, as stated: with an override select.<pkg>.<key> in some source, resolve
\* for pkg returns the override whatever the global key is; resolve for another
\* package is what it is without the override.
C27_Original ==
    Resolved =>
      /\ (last.package_name = Selected /\ WithSelect # {}) =>
            last.definition.value = SelectOf(Highest(WithSelect)).value
      /\ (last.package_name = "tox" /\ WithGlobal # {}) =>
            last.definition = GlobalOf(Highest(WithGlobal))
      /\ (last.package_name = "tox" /\ WithGlobal = {}) =>
            last.definition = NoDefinition

\* C27: with an override select.<pkg>.<key> in some source, resolve for pkg
\* returns the override when the global key is unset, or set to something else
\* in the same source or in sources of lower precedence only. The override has
\* no effect on another package.
C27_OverrideWinsFromItsSourceDown ==
    Resolved =>
      /\ (/\ last.package_name = Selected
          /\ WithSelect # {}
          /\ \A i \in WithGlobal : i >= Highest(WithSelect)) =>
            last.definition = SelectOf(Highest(WithSelect))
      /\ (last.package_name = "tox" /\ WithGlobal # {}) =>
            last.definition = GlobalOf(Highest(WithGlobal))
      /\ (last.package_name = "tox" /\ WithGlobal = {}) =>
            last.definition = NoDefinition

\* C27 witness: the config file sets the global key to symlink and overrides it
\* with wrap for the package; wrap is resolved for the package.
C27_Witness ==
    /\ Resolved
    /\ last.package_name = Selected
    /\ settings.cli = Empty
    /\ settings.chain[1].contents = [global |-> "symlink", select |-> "wrap"]
    /\ last.definition = [value |-> "wrap", source |-> ConfigJson]

\* The files the chain was loaded from, in the order load_config meets them
Included(path) ==
    IF last.folder[path] = <<>> THEN <<>> ELSE last.folder[path][1].include
RECURSIVE Met(_)
Met(paths) ==
    IF paths = <<>> THEN <<>>
    ELSE <<Head(paths)>> \o Met(Included(Head(paths)) \o Tail(paths))
ContentsOf(path) ==
    IF last.folder[path] = <<>> THEN Empty ELSE last.folder[path][1].contents

\* C28: loading a config whose include chain names a file that does not exist
\* raises no error: every file named is in the chain, in the order met, the
\* missing one as an empty source, and the keys of the files after it resolve.
C28_MissingIncludeIsAnEmptySource ==
    last.op # "start" =>
      /\ Len(settings.chain) = Len(Met(<<ConfigJson>>))
      /\ \A i \in DOMAIN settings.chain :
            settings.chain[i] = [origin |-> Met(<<ConfigJson>>)[i],
                                 contents |-> ContentsOf(Met(<<ConfigJson>>)[i])]
      /\ (/\ Resolved
          /\ last.package_name = None
          /\ settings.cli.global = None
          /\ ContentsOf(ConfigJson).global = None
          /\ Included(ConfigJson) = <<MissingJson, CustomJson>>
          /\ ContentsOf(CustomJson).global # None) =>
            last.definition = [value |-> ContentsOf(CustomJson).global, source |-> CustomJson]

\* C28 witness: the config file includes a missing file and then a file that
\* itself includes the missing file; the chain has the four sources and the
\* key set in the second included file resolves.
C28_Witness ==
    /\ Resolved
    /\ last.package_name = None
    /\ Included(ConfigJson) = <<MissingJson, CustomJson>>
    /\ Included(CustomJson) = <<MissingJson>>
    /\ Len(settings.chain) = 4
    /\ settings.chain[2] = [origin |-> MissingJson, contents |-> Empty]
    /\ settings.chain[4] = [origin |-> MissingJson, contents |-> Empty]
    /\ last.definition = [value |-> "wrap", source |-> CustomJson]

----------------------------------------------------------------------------
(* The wrapper script that DeliveryWrap writes, and its runs                 *)

\* <base>/pickley, which the wrapper tests with [[ -x ... ]]
PickleyPath == "base/pickley"
Executable == "executable"
WrapPaths == DeliveryPaths \cup {PickleyPath}

\* find <checked> -mmin +60: the age limit of the sentinel, in minutes
mmin == 60
Minute == 60

\* The steps of the clock, in seconds: twenty minutes, or half a minute more
TwentyMinutes == 20 * Minute
HalfMinute == 30
ClockSteps == {TwentyMinutes, TwentyMinutes + HalfMinute}

\* Bound of the model: how many steps the clock may advance
MaxClockSteps == 6
WrapEnd == Epoch + MaxClockSteps * (TwentyMinutes + HalfMinute)

\* find -mmin +60 prints the file when its age in minutes is more than 60; how
\* the seconds of the age are rounded to minutes depends on the find at hand
\* (the fraction is dropped, or rounded up), hence 'roundup'
\* (the same, were it -mmin +0)
find_mmin_any_age(file, t, roundup) ==
    t - file[1].mtime > 0
find_mmin(file, t, roundup) ==
    LET age == t - file[1].mtime
        minutes == IF roundup THEN (age + Minute - 1) \div Minute ELSE age \div Minute
    IN  minutes > mmin

\* The condition of the wrapper: pickley is executable, and the sentinel is
\* missing or older than 60 minutes
Wrapper_checks(fs, file, t, roundup) ==
    /\ fs[PickleyPath] = Executable
    /\ \/ file = <<>>
       \/ find_mmin(file, t, roundup)

\* The run of a wrapper under way: it is at 'install' (pickley --quiet install)
\* or at 'exec' (exec <target> $*, the wrapper again)
WrapperAt(pc) == <<[pc |-> pc]>>
NoRun == procs = <<>>

WrapFrame ==
    UNCHANGED <<ping, settings, configured, implementation, remote, diskCurrent,
                diskLatest, diskEntryPoints, current, latest, desired, entry_points>>

\* pickley [-n] install <name> from the command line, delivered with wrap
WrapInstall(d, raises) ==
    /\ NoRun
    /\ dryrun' = d
    /\ targets' = Deliverer_install("wrap", targets, d, raises)
    /\ checked' = Deliverer_checked("wrap", targets, checked, now, d)
    /\ last' = [last EXCEPT !.op = "deliver",
                            !.delivered = IF targets'[TargetPath] = "wrap" /\ ~d
                                          THEN now ELSE @]
    /\ UNCHANGED <<now, procs>>
    /\ WrapFrame

\* The wrapper is run, or runs again after the install it asked for: it touches
\* the sentinel and asks pickley for an install, or executes the source
WrapperRun(roundup) ==
    /\ NoRun \/ procs = WrapperAt("exec")
    /\ targets[TargetPath] = "wrap"
    /\ IF Wrapper_checks(targets, checked, now, roundup)
       THEN /\ checked' = touch(checked, now, FALSE)
            /\ procs' = WrapperAt("install")
            /\ last' = [last EXCEPT !.op = "check", !.lastCheck = now,
                                    !.before = last.lastCheck]
       ELSE /\ procs' = <<>>
            /\ last' = [last EXCEPT !.op = "source"]
            /\ UNCHANGED checked
    /\ UNCHANGED <<now, dryrun, targets>>
    /\ WrapFrame

\* pickley --quiet install <name>, as the wrapper runs it: nothing to do, or a
\* new version is installed and delivered
WrapperInstall(upgrade, raises) ==
    /\ procs = WrapperAt("install")
    /\ dryrun' = FALSE
    /\ IF upgrade
       THEN /\ targets' = Deliverer_install("wrap", targets, FALSE, raises)
            /\ checked' = Deliverer_checked("wrap", targets, checked, now, FALSE)
       ELSE UNCHANGED <<targets, checked>>
    /\ procs' = WrapperAt("exec")
    /\ last' = [last EXCEPT !.op = "install",
                            !.delivered = IF upgrade /\ targets'[TargetPath] = "wrap"
                                          THEN now ELSE @]
    /\ UNCHANGED now
    /\ WrapFrame

\* exec <target> $* when the delivery left no wrapper at the target
WrapperExecFails ==
    /\ procs = WrapperAt("exec")
    /\ targets[TargetPath] # "wrap"
    /\ procs' = <<>>
    /\ last' = [last EXCEPT !.op = "failed"]
    /\ UNCHANGED <<now, dryrun, targets, checked>>
    /\ WrapFrame

\* <base>/pickley comes or goes
WrapPickley(c) ==
    /\ c # targets[PickleyPath]
    /\ targets' = [targets EXCEPT ![PickleyPath] = c]
    /\ last' = [last EXCEPT !.op = "pickley"]
    /\ UNCHANGED <<now, dryrun, checked, procs>>
    /\ WrapFrame

\* Time passes
WrapTick(d) ==
    /\ now + d <= WrapEnd
    /\ now' = now + d
    /\ UNCHANGED <<dryrun, targets, checked, procs, last>>
    /\ WrapFrame

InitWrap ==
    /\ now = Epoch
    /\ dryrun = FALSE
    /\ configured = [value |-> None, channel |-> "stable", source |-> "defaults"]
    /\ implementation = "venv"
    /\ remote = None
    /\ diskCurrent = <<>>
    /\ diskLatest = <<>>
    /\ diskEntryPoints = <<>>
    /\ targets = [path \in WrapPaths |->
                     IF path = SourcePath THEN Artifact
                     ELSE IF path = PickleyPath THEN Executable
                     ELSE Absent]
    /\ current = VersionMeta(Name, "current")
    /\ latest = VersionMeta(Name, "latest")
    /\ desired = VersionMeta(Name, None)
    /\ entry_points = <<>>
    /\ NoOtherFiles
    /\ last = [op |-> "start", lastCheck |-> NoTimestamp, before |-> NoTimestamp,
               delivered |-> NoTimestamp]

NextWrap ==
    \/ \E d \in BOOLEAN, raises \in BOOLEAN : WrapInstall(d, raises)
    \/ \E roundup \in BOOLEAN : WrapperRun(roundup)
    \/ \E upgrade \in BOOLEAN, raises \in BOOLEAN : WrapperInstall(upgrade, raises)
    \/ WrapperExecFails
    \/ \E c \in {Absent, Executable} : WrapPickley(c)
    \/ \E d \in ClockSteps : WrapTick(d)

SpecWrap == InitWrap /\ [][NextWrap]_vars

----------------------------------------------------------------------------
(* Claims about the wrapper, checked under SpecWrap                          *)

\* The wrapper evaluates its condition in this step
WrapperRuns == last'.op \in {"check", "source"} /\ now' = now /\ procs' # procs

\* The sentinel was touched within the last 60 minutes: by the delivery of
\* the wrapper, or by a run of the wrapper
RecentlyTouched ==
    \/ checked # <<>> /\ now - checked[1].mtime <= mmin * Minute
    \/ last.delivered # NoTimestamp /\ now - last.delivered <= mmin * Minute

\* It asks for an upgrade check in this step
ChecksForUpgrade == WrapperRuns /\ last'.op = "check"

\* C29: for an entry point delivered with the wrap method, two upgrade checks
\* triggered by runs of the wrapper are more than 60 minutes apart, and a run
\* within 60 minutes of the last touch of the sentinel (the first run after
\* the delivery included) triggers none: it executes the source directly.
C29_WrapperChecksOncePerHour ==
    [][/\ (ChecksForUpgrade /\ last.lastCheck # NoTimestamp) =>
              now - last.lastCheck > mmin * Minute
       /\ (WrapperRuns /\ RecentlyTouched) =>
              /\ last'.op = "source"
              /\ NoRun'
              /\ checked' = checked]_vars

\* C29 witness: after the delivery of the wrapper, a second upgrade check has
\* been triggered, an hour and a minute after the first one.
C29_Witness ==
    /\ last.op = "check"
    /\ last.delivered # NoTimestamp
    /\ last.delivered < last.before
    /\ last.before # NoTimestamp
    /\ last.lastCheck = last.before + mmin * Minute + Minute
    /\ procs = WrapperAt("install")

----------------------------------------------------------------------------
(* perform_delivery and uninstall_existing, for pickley and another package  *)

\* The packages delivered, and the entry points of each
Delivered_names == {Name, "pickley"}
EntryPointsOf(name) ==
    IF name = "pickley" THEN {<<"pickley">>} ELSE {<<"tox">>, <<"tox", "tox-quickstart">>}
UninstallTargets == EntryPointNames \cup {"pickley"}

UninstallFrame ==
    UNCHANGED <<now, dryrun, configured, implementation, remote, diskLatest,
                diskEntryPoints, current, latest, desired, entry_points, ping,
                checked, procs, settings>>

\* The loop of Packager.perform_delivery for the package 'name': per entry
\* point, uninstall_existing when it applies, then the delivery
PerformDelivery(name, eps, placed) ==
    /\ LET had_current == file_exists(current, diskCurrent)
           uninstalls == uninstalls_existing(name, had_current)
           cleared(n) == IF uninstalls THEN uninstall_existing(targets[n], dryrun)
                         ELSE targets[n]
       IN  /\ targets' = [n \in DOMAIN targets |->
                            IF n \in Range(eps)
                            THEN DeliveryMethod_install(cleared(n), "3.2.1", dryrun, placed)
                            ELSE targets[n]]
           /\ last' = [op |-> "perform_delivery", name |-> name, eps |-> Range(eps),
                       uninstalled |-> IF uninstalls THEN Range(eps) ELSE {}]
    /\ UNCHANGED diskCurrent
    /\ UninstallFrame

\* The current file of the package is written (an install completed) or removed
CurrentFile(file) ==
    /\ file # diskCurrent
    /\ diskCurrent' = file
    /\ last' = [op |-> "current", name |-> None, eps |-> {}, uninstalled |-> {}]
    /\ UNCHANGED targets
    /\ UninstallFrame

\* Something else comes to occupy a target, or leaves it
OccupyTarget(n, c) ==
    /\ c # targets[n]
    /\ targets' = [targets EXCEPT ![n] = c]
    /\ last' = [op |-> "occupy", name |-> None, eps |-> {}, uninstalled |-> {}]
    /\ UNCHANGED diskCurrent
    /\ UninstallFrame

InitUninstall ==
    /\ NoOtherFiles
    /\ now = Epoch
    /\ dryrun \in BOOLEAN
    /\ configured = [value |-> None, channel |-> "stable", source |-> "defaults"]
    /\ implementation = "venv"
    /\ remote = None
    /\ diskCurrent = <<>>
    /\ diskLatest = <<>>
    /\ diskEntryPoints = <<>>
    /\ targets = [n \in UninstallTargets |-> Absent]
    /\ current = VersionMeta(Name, "current")
    /\ latest = VersionMeta(Name, "latest")
    /\ desired = VersionMeta(Name, None)
    /\ entry_points = <<>>
    /\ last = [op |-> "start", name |-> None, eps |-> {}, uninstalled |-> {}]

NextUninstall ==
    \/ \E name \in Delivered_names, placed \in BOOLEAN :
          \E eps \in EntryPointsOf(name) : PerformDelivery(name, eps, placed)
    \/ \E file \in InitialFiles : CurrentFile(file)
    \/ \E n \in UninstallTargets, c \in {Absent, Foreign} : OccupyTarget(n, c)

SpecUninstall == InitUninstall /\ [][NextUninstall]_vars

----------------------------------------------------------------------------
(* cli.check and cli.install over a batch of packages                        *)

\* The batches: per package, its current file, its configuration and what the
\* index answers for it
RECURSIVE BatchesOf(_)
BatchesOf(n) ==
    IF n = 0 THEN {<<>>}
    ELSE BatchesOf(n - 1) \cup
         { Append(b, pkg) : b \in {c \in BatchesOf(n - 1) : Len(c) = n - 1},
                            pkg \in Situations }
Batches == BatchesOf(MaxPackages)

\* What effective_install meets in a batch: every step succeeds
Smooth ==
    [pip |-> TRUE, pex |-> TRUE, found |-> <<"tox">>, placed |-> EveryDelivery,
     delivery |-> "symlink"]

\* pickley check <packages> / pickley install [-f] <packages>, under way: its
\* packages, how many the loop has taken, its exit
Command(command, force, packages) ==
    <<[command |-> command, force |-> force, packages |-> packages, at |-> 0,
       code |-> 0, exited |-> FALSE]>>

BatchFrame ==
    UNCHANGED <<now, dryrun, implementation, diskEntryPoints, entry_points, ping,
                checked, settings>>

\* cli.check: one iteration of its loop
BatchCheck ==
    /\ procs[1].command = "check"
    /\ ~procs[1].exited
    /\ procs[1].at < Len(procs[1].packages)
    /\ LET i   == procs[1].at + 1
           pkg == procs[1].packages[i]
           cur == refresh_current(VersionMeta(Name, "current"), diskCurrent[i])
           rd  == refresh_desired(VersionMeta(Name, None), VersionMeta(Name, "latest"),
                                  <<>>, pkg.configured, implementation, now, dryrun,
                                  pkg.answer)
           code == IF check_package(cur, rd.desired) = 1 THEN 1 ELSE procs[1].code
       IN  /\ configured' = pkg.configured
           /\ remote' = pkg.answer
           /\ diskLatest' = rd.file
           /\ current' = cur
           /\ latest' = rd.latest
           /\ desired' = rd.desired
           /\ procs' = [procs EXCEPT ![1].at = i, ![1].code = code]
           /\ last' = [op |-> "check", refreshed |-> last.refreshed + 1]
    /\ UNCHANGED <<diskCurrent, targets>>
    /\ BatchFrame

\* cli.install: one iteration of its loop, Packager.install(force) of the package
\* (the same, were an invalid desired reported and the loop continued)
BatchInstall_reports ==
    /\ procs[1].command = "install"
    /\ ~procs[1].exited
    /\ procs[1].at < Len(procs[1].packages)
    /\ LET i   == procs[1].at + 1
           pkg == procs[1].packages[i]
           cur == refresh_current(VersionMeta(Name, "current"), diskCurrent[i])
           rd  == refresh_desired(VersionMeta(Name, None), VersionMeta(Name, "latest"),
                                  <<>>, pkg.configured, implementation, now, dryrun,
                                  pkg.answer)
           ei  == effective_install(implementation, rd.desired.version, <<>>, <<>>,
                                    dryrun, targets, file_exists(cur, diskCurrent[i]),
                                    Smooth)
           set_current == set(cur, rd.desired)
       IN  /\ configured' = pkg.configured
           /\ remote' = pkg.answer
           /\ diskLatest' = rd.file
           /\ latest' = rd.latest
           /\ desired' = rd.desired
           /\ last' = [op |-> "install", refreshed |-> last.refreshed + 1]
           /\ IF ~valid(rd.desired)
              THEN /\ procs' = [procs EXCEPT ![1].at = i, ![1].code = 1]
                   /\ current' = cur
                   /\ UNCHANGED <<diskCurrent, targets>>
              ELSE IF ~procs[1].force /\ equivalent(cur, rd.desired)
              THEN /\ procs' = [procs EXCEPT ![1].at = i]
                   /\ current' = cur
                   /\ UNCHANGED <<diskCurrent, targets>>
              ELSE IF ei.outcome \in Aborts
              THEN /\ procs' = [procs EXCEPT ![1].at = i, ![1].code = 1, ![1].exited = TRUE]
                   /\ current' = cur
                   /\ targets' = ei.targets
                   /\ UNCHANGED diskCurrent
              ELSE /\ procs' = [procs EXCEPT ![1].at = i]
                   /\ current' = set_current
                   /\ diskCurrent' = [diskCurrent EXCEPT
                                         ![i] = save(set_current, diskCurrent[i], dryrun)]
                   /\ targets' = ei.targets
    /\ BatchFrame
BatchInstall ==
    /\ procs[1].command = "install"
    /\ ~procs[1].exited
    /\ procs[1].at < Len(procs[1].packages)
    /\ LET i   == procs[1].at + 1
           pkg == procs[1].packages[i]
           cur == refresh_current(VersionMeta(Name, "current"), diskCurrent[i])
           rd  == refresh_desired(VersionMeta(Name, None), VersionMeta(Name, "latest"),
                                  <<>>, pkg.configured, implementation, now, dryrun,
                                  pkg.answer)
           ei  == effective_install(implementation, rd.desired.version, <<>>, <<>>,
                                    dryrun, targets, file_exists(cur, diskCurrent[i]),
                                    Smooth)
           set_current == set(cur, rd.desired)
       IN  /\ configured' = pkg.configured
           /\ remote' = pkg.answer
           /\ diskLatest' = rd.file
           /\ latest' = rd.latest
           /\ desired' = rd.desired
           /\ last' = [op |-> "install", refreshed |-> last.refreshed + 1]
           /\ IF ~valid(rd.desired)
              THEN /\ procs' = [procs EXCEPT ![1].at = i, ![1].code = 1, ![1].exited = TRUE]
                   /\ current' = cur
                   /\ UNCHANGED <<diskCurrent, targets>>
              ELSE IF ~procs[1].force /\ equivalent(cur, rd.desired)
              THEN /\ procs' = [procs EXCEPT ![1].at = i]
                   /\ current' = cur
                   /\ UNCHANGED <<diskCurrent, targets>>
              ELSE IF ei.outcome \in Aborts
              THEN /\ procs' = [procs EXCEPT ![1].at = i, ![1].code = 1, ![1].exited = TRUE]
                   /\ current' = cur
                   /\ targets' = ei.targets
                   /\ UNCHANGED diskCurrent
              ELSE /\ procs' = [procs EXCEPT ![1].at = i]
                   /\ current' = set_current
                   /\ diskCurrent' = [diskCurrent EXCEPT
                                         ![i] = save(set_current, diskCurrent[i], dryrun)]
                   /\ targets' = ei.targets
    /\ BatchFrame

\* The loop is over: check exits with its code, install returns (exit code 0)
BatchExit ==
    /\ ~procs[1].exited
    /\ procs[1].at = Len(procs[1].packages)
    /\ procs' = [procs EXCEPT ![1].exited = TRUE]
    /\ last' = [last EXCEPT !.op = "exit"]
    /\ UNCHANGED <<configured, remote, diskCurrent, diskLatest, targets, current,
                   latest, desired>>
    /\ BatchFrame

InitBatch ==
    /\ now = Epoch
    /\ dryrun = FALSE
    /\ configured = [value |-> None, channel |-> "stable", source |-> "defaults"]
    /\ implementation = "venv"
    /\ remote = None
    /\ \E command \in {"check", "install"}, force \in BOOLEAN, packages \in Batches :
          /\ command = "check" => ~force
          /\ procs = Command(command, force, packages)
          /\ diskCurrent = [i \in DOMAIN packages |-> packages[i].file]
    /\ diskLatest = <<>>
    /\ diskEntryPoints = <<>>
    /\ targets = [n \in EntryPointNames |-> Absent]
    /\ current = VersionMeta(Name, "current")
    /\ latest = VersionMeta(Name, "latest")
    /\ desired = VersionMeta(Name, None)
    /\ entry_points = <<>>
    /\ ping = <<>>
    /\ checked = <<>>
    /\ settings = <<>>
    /\ last = [op |-> "start", refreshed |-> 0]

NextBatch ==
    \/ BatchCheck
    \/ BatchInstall
    \/ BatchExit

SpecBatch == InitBatch /\ [][NextBatch]_vars

\* The desired version of a package cannot be resolved: no version configured,
\* and a channel other than 'latest' or an index that has no answer
Unresolvable(pkg) ==
    /\ pkg.configured.value = None
    /\ pkg.configured.channel # "latest" \/ pkg.answer = None

\* The version that an install of the package asks for
Wanted(pkg) ==
    IF pkg.configured.value # None THEN pkg.configured.value ELSE pkg.answer

\* C32: over a batch of packages, an unresolvable desired version is not fatal
\* for check (the loop goes on to the last package, the exit code is 1) and
\* fatal for install: the process exits at the first such package, the packages
\* before it are installed, the packages after it are neither refreshed nor
\* installed.
C32_UnresolvableFatalForInstallOnly ==
      LET run == procs[1]
          unresolvable == {i \in DOMAIN run.packages : Unresolvable(run.packages[i])}
      IN  /\ (run.command = "check" /\ run.exited) =>
                /\ run.at = Len(run.packages)
                /\ last.refreshed = Len(run.packages)
                /\ unresolvable # {} => run.code = 1
          /\ (run.command = "install" /\ unresolvable # {}) =>
                LET first == CHOOSE i \in unresolvable : \A j \in unresolvable : i <= j
                IN  /\ run.at <= first
                    /\ last.refreshed <= first
                    /\ run.at = first => run.exited /\ run.code = 1
                    /\ \A j \in 1..run.at : j < first =>
                          /\ diskCurrent[j] # <<>>
                          /\ diskCurrent[j][1].version = Wanted(run.packages[j])
                    /\ \A j \in DOMAIN run.packages : j > first =>
                          diskCurrent[j] = run.packages[j].file

\* C32 witness: an install of two packages has exited with code 1 at the
\* second one, the first one newly installed.
C32_Witness ==
    /\ procs[1].command = "install"
    /\ procs[1].exited
    /\ procs[1].code = 1
    /\ procs[1].at = 2
    /\ Unresolvable(procs[1].packages[2])
    /\ procs[1].packages[1].file = <<>>
    /\ diskCurrent[1] # <<>>
    /\ diskCurrent[2] = procs[1].packages[2].file

----------------------------------------------------------------------------
(* auto-upgrade of a package that may not be installed, or whose install fails *)

\* The package is installed in version 3.2.0 or not at all; the index holds
\* 3.2.1, has no answer, or answers with a message
InitTouch ==
    /\ now = Epoch + version_check_delay
    /\ dryrun = FALSE
    /\ configured = [value |-> None, channel |-> "latest", source |-> "defaults"]
    /\ implementation = "venv"
    /\ remote \in LatestAnswers
    /\ diskCurrent \in {<<>>, InstalledBy("venv")}
    /\ diskLatest = <<>>
    /\ diskEntryPoints = <<Found>>
    /\ targets = [n \in EntryPointNames |-> "3.2.0"]
    /\ current = VersionMeta(Name, "current")
    /\ latest = VersionMeta(Name, "latest")
    /\ desired = VersionMeta(Name, None)
    /\ entry_points = <<>>
    /\ checked = <<>>
    /\ settings = <<>>
    /\ ping \in {<<>>, <<[mtime |-> Epoch, pid |-> NoPid]>>}
    /\ procs = <<>>
    /\ last = [op |-> "init", pid |-> NoPid, reached |-> 0, reachedWet |-> 0]

NextTouch ==
    \/ \E pid \in Pids, d \in BOOLEAN : AutoStart(pid, "auto-upgrade", d, TRUE)
    \/ \E pid \in Pids : AutoStep(pid)
    \/ AutoTick

SpecTouch == InitTouch /\ [][NextTouch]_vars

\* The steps of internal_install, from the acquisition of the lock on
Installing == {"acquire", "refresh", "build", "entry_points", "delete", "create", "save"}

\* The invocation pid ends in this step because its install failed
InstallFails(pid) ==
    /\ pid \in DOMAIN procs
    /\ ~procs[pid].exited
    /\ procs[pid].pc \in Installing
    /\ procs'[pid].exited
    /\ procs'[pid].code = 1

\* The lock file as the touch of pid at time t writes it
TouchedBy(pid, t) == <<[mtime |-> t, pid |-> pid]>>

\* What C33 says of one step, of the invocations that are not dry runs and,
\* with dry_too, of the dry runs as well
C33_Step(dry_too) ==
    LET real(pid) == dry_too \/ ~procs[pid].dryrun IN
    /\ \* the lock changes in the touch or in the acquisition of an invocation
       \* whose package is installed, and the touch meets a lock that is not young
       ping' # ping =>
          /\ last'.op \in {"touch", "acquire"}
          /\ valid(procs[last'.pid].current)
          /\ last'.op = "touch" => ~PingLock_is_young(ping, now)
    /\ \* the touch writes the lock, before any step of the install
       (last'.op = "touch" /\ real(last'.pid)) =>
          /\ ping' = TouchedBy(last'.pid, now)
          /\ procs'[last'.pid].pc = "acquire"
          /\ UNCHANGED Persistent
    /\ \* a package without a valid current: exit, no touch, no install
       (last'.op = "refresh_current" /\ ~valid(procs'[last'.pid].current)) =>
          /\ procs'[last'.pid].exited
          /\ procs'[last'.pid].code = 1
          /\ UNCHANGED <<Persistent, ping>>
    /\ \* a failed install leaves the lock as the invocation wrote it
       \A pid \in Pids : (InstallFails(pid) /\ real(pid)) =>
          /\ ping' = ping
          /\ ping # <<>>
          /\ ping[1].pid = pid
    /\ \* and an attempt within the delay of that is skipped
       ChecksYoungLock => SkipsQuietly(last'.pid)

\* C33, as stated: for every auto-upgrade invocation, dry runs included.
C33_Original ==
    [][C33_Step(TRUE)]_vars

\* C33: in an auto-upgrade that is not a dry run the ping lock is touched
\* before the install begins, and only when the package has a valid current
\* and the lock is not young; without a valid current the command exits
\* without touching the lock or installing; a failed install leaves the lock
\* touched, and the next attempt within the delay is skipped. (A dry run
\* writes no lock.)
C33_LockTouchedBeforeInstall ==
    [][C33_Step(FALSE)]_vars

\* C33 witness: an invocation has been skipped, half a delay after the install
\* of the one before it failed on what the index answered.
C33_Witness ==
    /\ last.op = "is_young"
    /\ procs[last.pid].outcome = "skipped"
    /\ \E pid \in DOMAIN procs :
          /\ pid # last.pid
          /\ procs[pid].outcome \in {"abort_desired", "abort_build"}
          /\ ~procs[pid].dryrun
    /\ ping # <<>>
    /\ ping[1].pid # last.pid
    /\ now = ping[1].mtime + HalfDelay


----------------------------------------------------------------------------
(* What effective_install is handed, on every path of Packager.install      *)

\* C34: every call of effective_install, in an install or in bootstrap mode,
\* is made with a non-empty version that is the version of a valid desired.
\* (Packager.install with bootstrap set skips both refreshes and the validity
\* test, so the desired it passes on is the one the constructor made.)
C34_EffectiveInstallGetsValidVersion ==
    [][(last'.op \in Installs \cup {"bootstrap"} /\ last'.effective_installs = 1) =>
          /\ truthy(desired'.version)
          /\ valid(desired')]_vars


----------------------------------------------------------------------------
(* bootstrap, one invocation after the other                                 *)

\* pickley is packaged as a pex, or as a venv already; each invocation runs
\* cli.bootstrap to its end before the next one starts
InitBootstrap ==
    InitAuto({"venv", "pex"}, {<<>>, <<[mtime |-> Epoch, pid |-> NoPid]>>})

NextBootstrap ==
    \/ \E pid \in Pids, d \in BOOLEAN : AutoStart(pid, "bootstrap", d, TRUE)
    \/ \E pid \in Pids : AutoRefreshCurrent(pid)
    \/ \E pid \in Pids : AutoAcquire(pid)
    \/ \E pid \in Pids : AutoBuild(pid)
    \/ \E pid \in Pids : AutoEntryPoints(pid)
    \/ \E pid \in Pids : AutoDeliverDelete(pid)
    \/ \E pid \in Pids : AutoDeliverCreate(pid)
    \/ \E pid \in Pids : AutoSave(pid)
    \/ \E pid \in Pids : AutoReturn(pid)
    \/ AutoTick

SpecBootstrap == InitBootstrap /\ [][NextBootstrap]_vars

\* An earlier invocation, not a dry run, went through its bootstrap install
\* (Packager.install with bootstrap set) and has ended
BootstrapInstalled(pid) ==
    /\ pid \in DOMAIN procs
    /\ procs[pid].exited
    /\ ~procs[pid].dryrun
    /\ procs[pid].outcome \in {"installed"} \cup Aborts

\* C35: bootstrap converges: once an invocation that is not a dry run has gone
\* through its bootstrap install, .current.json names the venv packager, and a
\* later bootstrap returns without installing again.
C35_BootstrapConverges ==
    [][\A pid \in DOMAIN procs :
          BootstrapInstalled(pid) =>
             /\ diskCurrent # <<>>
             /\ diskCurrent[1].packager = implementation
             /\ last'.op # "acquire"]_vars


----------------------------------------------------------------------------
(* cli.check and Packager.install(force=False) on the same state             *)

\* The current files: not installed, without version, installed by venv at
\* 3.2.0 or 3.2.1, installed by pex at 3.2.0
AgreeFiles == CheckedFiles \cup InitialFiles

\* cli.check, the body of its loop for the package, in the process as it is
AgreeCheck ==
    /\ ~ProcessExited
    /\ LET cur == refresh_current(current, diskCurrent)
           rd  == refresh_desired(desired, latest, diskLatest, configured,
                                  implementation, now, dryrun, remote)
           verdict == IF check_package(cur, rd.desired) = 0
                      THEN "is_installed" ELSE "code_1"
       IN  /\ current' = cur
           /\ desired' = rd.desired
           /\ latest' = rd.latest
           /\ diskLatest' = rd.file
           /\ last' = Obs("check", verdict, 0, 0, rd.lookups, "not_run", "no")
    /\ UNCHANGED <<ping, checked, procs, settings, now, dryrun, configured,
                   implementation, remote, diskCurrent, diskEntryPoints, targets,
                   entry_points>>

InitAgree ==
    /\ NoOtherFiles
    /\ now = Epoch
    /\ dryrun = FALSE
    /\ configured \in Configurations
    /\ implementation \in Implementations
    /\ remote \in Answers
    /\ diskCurrent \in AgreeFiles
    /\ diskLatest = <<>>
    /\ diskEntryPoints = <<>>
    /\ targets = [n \in EntryPointNames |-> Absent]
    /\ current = VersionMeta(Name, "current")
    /\ latest = VersionMeta(Name, "latest")
    /\ desired = VersionMeta(Name, None)
    /\ entry_points = <<>>
    /\ last = Plain("start", 0)

NextAgree ==
    \/ AgreeCheck
    \/ Install(FALSE, FALSE, Smooth)

SpecAgree == InitAgree /\ [][NextAgree]_vars

\* What cli.check would report on this state: 'is installed'
CheckSaysInstalled ==
    check_package(refresh_current(current, diskCurrent),
                  refresh_desired(desired, latest, diskLatest, configured,
                                  implementation, now, dryrun, remote).desired) = 0

\* The packager recorded in the current file is the one that would install
SamePackager ==
    /\ diskCurrent # <<>>
    /\ diskCurrent[1].packager = implementation

\* This step is an install(force=False); it was a no-op
InstallStep == last'.op = "install"
InstallNoOp == last'.outcome = "already_installed"

\* C36 as stated: check reports 'is installed' exactly when install(force=False)
\* on the same state is a no-op.
C36_Original ==
    [][InstallStep => (InstallNoOp <=> CheckSaysInstalled)]_vars

\* C36: install(force=False) is a no-op exactly when check reports 'is
\* installed' on the same state and the current record was made by the packager
\* that would install; a current of the desired version made by another
\* packager is reported as installed by check and installed again by install.
C36_CheckAndInstallAgreeForSamePackager ==
    [][InstallStep => (InstallNoOp <=> (CheckSaysInstalled /\ SamePackager))]_vars

\* C36 witness: check has reported the package as installed, and then
\* install(force=False) was a no-op on the same files.
C36_Witness ==
    /\ last.op = "install"
    /\ last.outcome = "already_installed"
    /\ CheckSaysInstalled
    /\ SamePackager


----------------------------------------------------------------------------
(* Packager.install around a delivery that fails                             *)

\* The desired version, as refresh_desired left it
DesiredRelease ==
    set_version(VersionMeta(Name, None), "3.2.1", "config.json", "stable", "venv", Epoch)

\* What was delivered before: nothing, a foreign file, or the executable of
\* the release installed before, by any of the variants
DeliveredBefore == {Absent, Foreign} \cup Variants

\* Packager.install once desired is valid and not equivalent to current:
\* effective_install delivers the entry point (DeliveryMethod.install), then
\* current.set(desired) and current.save()
InstallDelivers(variant, raises) ==
    /\ valid(desired)
    /\ targets' = Deliverer_install(variant, targets, dryrun, raises)
    /\ checked' = Deliverer_checked(variant, targets, checked, now, dryrun)
    /\ current' = set(current, desired)
    /\ diskCurrent' = save(set(current, desired), diskCurrent, dryrun)
    /\ last' = [op |-> "install", variant |-> variant, raises |-> raises,
                again |-> FALSE, before |-> targets[TargetPath]]
    /\ UNCHANGED <<ping, procs, settings, now, dryrun, configured, implementation,
                   remote, diskLatest, diskEntryPoints, latest, desired, entry_points>>

\* The next process: a new Packager, with desired refreshed
NextRun(d) ==
    /\ dryrun' = d
    /\ current' = refresh_current(VersionMeta(Name, "current"), diskCurrent)
    /\ last' = [op |-> "run", variant |-> "", raises |-> FALSE, again |-> FALSE,
                before |-> targets[TargetPath]]
    /\ UNCHANGED <<targets, checked, diskCurrent>>
    /\ UNCHANGED <<ping, procs, settings, now, configured, implementation,
                   remote, diskLatest, diskEntryPoints, latest, desired, entry_points>>

InitFailedDelivery ==
    /\ NoOtherFiles
    /\ now = Epoch
    /\ dryrun \in BOOLEAN
    /\ configured = [value |-> "3.2.1", channel |-> "stable", source |-> "config.json"]
    /\ implementation = "venv"
    /\ remote = None
    /\ diskCurrent \in InitialFiles
    /\ diskLatest = <<>>
    /\ diskEntryPoints = <<>>
    /\ \E t \in DeliveredBefore, src \in {Absent, Artifact} :
          targets = [path \in DeliveryPaths |-> IF path = TargetPath THEN t ELSE src]
    /\ current = refresh_current(VersionMeta(Name, "current"), diskCurrent)
    /\ latest = VersionMeta(Name, "latest")
    /\ desired = DesiredRelease
    /\ entry_points = <<>>
    /\ last = [op |-> "run", variant |-> "", raises |-> FALSE, again |-> FALSE,
               before |-> Absent]

NextFailedDelivery ==
    \/ \E variant \in Variants, raises \in BOOLEAN : InstallDelivers(variant, raises)
    \/ \E c \in Occupants : Occupy(TargetPath, c)
    \/ \E c \in {Absent, Artifact} : Occupy(SourcePath, c)
    \/ \E d \in BOOLEAN : NextRun(d)

SpecFailedDelivery == InitFailedDelivery /\ [][NextFailedDelivery]_vars

\* This step is an install, not a dry run, whose delivery fails: the source is
\* missing, or the variant's _install raises
SourceMissing == targets[SourcePath] = Absent
DeliveryFails ==
    /\ last'.op = "install"
    /\ ~dryrun
    /\ SourceMissing \/ last'.raises

\* The install has recorded current = desired, in memory and in .current.json
RecordsDesired ==
    /\ equivalent(current', desired)
    /\ diskCurrent' = <<to_dict(current')>>
    /\ diskCurrent'[1].version = desired.version

----------------------------------------------------------------------------
(* One run of the wrapper, from its start to the exec that ends it           *)

\* Time passes between the runs of the wrapper: a run, the install it asks
\* for included, takes less than the hour of the sentinel
WrapTickIdle(d) ==
    /\ NoRun
    /\ WrapTick(d)

\* exec <target> $* after the install: the wrapper runs again
WrapperAgain(roundup) ==
    /\ procs = WrapperAt("exec")
    /\ WrapperRun(roundup)

NextWrapRun ==
    \/ \E d \in BOOLEAN, raises \in BOOLEAN : WrapInstall(d, raises)
    \/ \E roundup \in BOOLEAN : WrapperRun(roundup)
    \/ \E upgrade \in BOOLEAN, raises \in BOOLEAN : WrapperInstall(upgrade, raises)
    \/ WrapperExecFails
    \/ \E c \in {Absent, Executable} : WrapPickley(c)
    \/ \E d \in ClockSteps : WrapTickIdle(d)

SpecWrapRun == InitWrap /\ [][NextWrapRun]_vars

\* A run under way goes on: the install returns, and bash executes the target
LiveWrapRun ==
    /\ SpecWrapRun
    /\ WF_vars(\E upgrade \in BOOLEAN, raises \in BOOLEAN : WrapperInstall(upgrade, raises))
    /\ WF_vars(\E roundup \in BOOLEAN : WrapperAgain(roundup))
    /\ WF_vars(WrapperExecFails)

\* A run that has asked for an upgrade touched the sentinel before
TouchedFirst ==
    procs = WrapperAt("install") => (checked # <<>> /\ checked[1].mtime = now)

\* The target is executed again after the install, and takes the direct branch
SecondRunIsDirect ==
    (procs = WrapperAt("exec") /\ procs' # procs /\ targets[TargetPath] = "wrap")
       => (last'.op = "source" /\ NoRun')

\* A run ends in this step
RunEnds == procs # <<>> /\ NoRun'

\* C38 as stated: every run of the wrapper ends by executing the artifact,
\* after at most one re-execution of the target.
C38_Original ==
    /\ []TouchedFirst
    /\ [][SecondRunIsDirect]_vars
    /\ [][RunEnds => last'.op = "source"]_vars
    /\ (procs # <<>>) ~> NoRun

\* C38: every run of the wrapper ends, after at most one re-execution of the
\* target: a run that triggers an upgrade touches the sentinel first, and when
\* the install leaves a wrapper at the target the second run takes the direct
\* branch and executes the artifact. When the delivery of the install failed
\* and left no wrapper at the target, the exec fails and the artifact is not
\* executed.
C38_WrapperRunsEnd ==
    /\ []TouchedFirst
    /\ [][SecondRunIsDirect]_vars
    /\ [][RunEnds => \/ last'.op = "source"
                     \/ last'.op = "failed" /\ targets[TargetPath] # "wrap"]_vars
    /\ (procs # <<>>) ~> NoRun

\* C38 witness: a run has triggered an upgrade that delivered a new wrapper,
\* executed it, and ended in the direct branch.
C38_Witness ==
    /\ NoRun
    /\ last.op = "source"
    /\ last.lastCheck = now
    /\ last.delivered = now
    /\ last.before # NoTimestamp
    /\ targets[TargetPath] = "wrap"


----------------------------------------------------------------------------
(* run_program in a dry run                                                  *)

\* This step is a call of run_program, without a dryrun argument, in a dry run
DryRunProgram == last'.op = "run_program" /\ dryrun

\* The call returned the 'Would run' message: no program was looked up or run
ReturnedWouldRun ==
    /\ procs'[Pid].received = WouldRun
    /\ ~procs'[Pid].exited

\* C39 as stated: in a dry run, run_program spawns no subprocess whatever the
\* value of fatal, and returns the 'Would run' message.
C39_Original ==
    [][DryRunProgram => ReturnedWouldRun]_vars

\* C39: in a dry run and without a dryrun argument, run_program spawns no
\* subprocess and returns the 'Would run' message exactly when fatal is set
\* (the default); with fatal=False the program is run as in a real run, and
\* its output is returned when it succeeds.
C39_DryRunSkipsFatalProgramsOnly ==
    [][DryRunProgram =>
          /\ ReturnedWouldRun <=> last'.fatal
          /\ (~last'.fatal /\ last'.outcome = "ok") => procs'[Pid].received = Output
          /\ (~last'.fatal /\ last'.outcome # "ok") =>
                (procs'[Pid].received = None /\ ~procs'[Pid].exited)]_vars

\* C39 witness: in a dry run, run_program(..., fatal=False) has run the program
\* and returned its output.
C39_Witness ==
    /\ dryrun
    /\ last.op = "run_program"
    /\ ~last.fatal
    /\ last.outcome = "ok"
    /\ procs[Pid].received = Output


----------------------------------------------------------------------------
(* Installs, each followed by cleanup, in a folder that holds other entries  *)

\* <cache>/tox: the build cache, .current.json, the venv of each release, and
\* two entries that start with neither the package name nor an entry point name
StrayEntry == <<"b", "i", "n">>
Strays == {OtherEntry, StrayEntry}
FolderOf(version) ==
    IF version = "3.2.0" THEN <<"t", "o", "x", "-", "3", ".", "2", ".", "0">>
    ELSE <<"t", "o", "x", "-", "3", ".", "2", ".", "1">>
KeptEntries ==
    {DistEntry, HiddenEntry} \cup Strays \cup {FolderOf(v) : v \in Versions}

KeepFrame ==
    UNCHANGED <<ping, checked, procs, settings, dryrun, configured, implementation,
                remote, diskLatest, diskEntryPoints, latest, desired, entry_points>>

\* Packager.install of a release, not a dry run: effective_install builds the
\* venv in <cache>/tox/tox-<version> (and leaves a build cache or not), then
\* current is set and saved. The install before it was followed by cleanup
\* (cleaned).
KeepInstall(version, cache) ==
    /\ last.cleaned
    /\ \A v \in Versions : targets[FolderOf(v)] < now
    /\ targets' = [targets EXCEPT ![FolderOf(version)] = now,
                                  ![DistEntry] = IF cache THEN now ELSE @,
                                  ![HiddenEntry] = now]
    /\ current' = set_version(current, version, "config.json", "stable", "venv", now)
    /\ diskCurrent' = <<to_dict(current')>>
    /\ last' = [op |-> "install", deleted |-> 0, cleaned |-> FALSE]
    /\ UNCHANGED now
    /\ KeepFrame

\* Packager.cleanup, after the install
KeepCleanup ==
    /\ targets' = cleanup(targets, <<"tox">>, FALSE)
    /\ last' = [op |-> "cleanup",
                deleted |-> Cardinality({e \in KeptEntries :
                                targets[e] # NoEntry /\ targets'[e] = NoEntry}),
                cleaned |-> TRUE]
    /\ UNCHANGED <<now, current, diskCurrent>>
    /\ KeepFrame

\* Something else writes an entry of the folder
KeepStray(e) ==
    /\ targets[e] < now
    /\ targets' = [targets EXCEPT ![e] = now]
    /\ last' = [last EXCEPT !.op = "stray", !.deleted = 0]
    /\ UNCHANGED <<now, current, diskCurrent>>
    /\ KeepFrame

\* Time passes
KeepTick ==
    /\ now < MaxMtime
    /\ now' = now + 1
    /\ UNCHANGED <<targets, current, diskCurrent, last>>
    /\ KeepFrame

InitKeep ==
    /\ NoOtherFiles
    /\ now = 1
    /\ dryrun = FALSE
    /\ configured = [value |-> None, channel |-> "stable", source |-> "defaults"]
    /\ implementation = "venv"
    /\ remote = None
    /\ diskCurrent = <<>>
    /\ diskLatest = <<>>
    /\ diskEntryPoints = <<>>
    /\ targets = [e \in KeptEntries |-> NoEntry]
    /\ current = VersionMeta(Name, "current")
    /\ latest = VersionMeta(Name, "latest")
    /\ desired = VersionMeta(Name, None)
    /\ entry_points = <<>>
    /\ last = [op |-> "start", deleted |-> 0, cleaned |-> TRUE]

NextKeep ==
    \/ \E version \in Versions, cache \in BOOLEAN : KeepInstall(version, cache)
    \/ KeepCleanup
    \/ \E e \in Strays : KeepStray(e)
    \/ KeepTick

SpecKeep == InitKeep /\ [][NextKeep]_vars

\* This step is a cleanup of the folder of an installed package
CleansInstalled == last'.op = "cleanup" /\ now' = now /\ diskCurrent # <<>>

\* The venv of the version recorded in current is there, and the metadata file
\* is as it was
KeepsInstalledState ==
    /\ targets'[FolderOf(diskCurrent[1].version)] # NoEntry
    /\ targets'[FolderOf(diskCurrent[1].version)] = targets[FolderOf(diskCurrent[1].version)]
    /\ targets'[HiddenEntry] = targets[HiddenEntry]
    /\ targets'[HiddenEntry] # NoEntry

\* The entries that start with neither the package name nor an entry point
\* name, the build cache aside
StraysThere == {e \in Strays : targets[e] # NoEntry}

\* C40 as stated: cleanup keeps the venv of the current version and the
\* metadata files, and leaves every entry that matches no name untouched.
C40_Original ==
    [][CleansInstalled =>
          /\ KeepsInstalledState
          /\ \A e \in Strays : targets'[e] = targets[e]]_vars

\* C40: after installs that are not dry runs, each followed by cleanup, the
\* venv of the version recorded in current still exists and the dot-prefixed
\* metadata file is never deleted; the entries that match neither the package
\* name nor an entry point name form a group of their own, of which cleanup
\* keeps the most recent one and deletes the others, and the build cache is
\* deleted.
C40_CleanupKeepsTheInstalledState ==
    [][CleansInstalled =>
          /\ KeepsInstalledState
          /\ targets'[DistEntry] = NoEntry
          /\ \A e \in Strays : targets'[e] \in {targets[e], NoEntry}
          /\ StraysThere # {} =>
                \E k \in StraysThere :
                    /\ targets'[k] = targets[k]
                    /\ \A x \in StraysThere : targets[x] <= targets[k]
                    /\ \A x \in StraysThere \ {k} : targets'[x] = NoEntry]_vars

\* C40 witness: after the install of 3.2.1 over 3.2.0, cleanup has deleted the
\* older venv, the build cache and the older of two other entries, and kept the
\* venv of 3.2.1 that current records.
C40_Witness ==
    /\ last.op = "cleanup"
    /\ last.deleted = 3
    /\ diskCurrent # <<>>
    /\ diskCurrent[1].version = "3.2.1"
    /\ targets[FolderOf("3.2.1")] = now
    /\ targets[FolderOf("3.2.0")] = NoEntry
    /\ targets[DistEntry] = NoEntry
    /\ targets[OtherEntry] = NoEntry
    /\ targets[StrayEntry] # NoEntry
    /\ targets[HiddenEntry] # NoEntry

============================================================================
